---- MODULE Spec2Model ----
(***************************************************************************)
(* Model of server/routes.ts: the generated-file extractor                 *)
(* (parseFilesFromResponse, detectLanguage), getOpenAI and the routes that *)
(* ask it for a client, /api/build and /api/download-project, the auth     *)
(* routes, /api/assistant/chat and /api/run; and of two parts of the       *)
(* client, the Chat page and the CodeDiff component.                       *)
(*                                                                         *)
(* A text is a sequence of characters, each a string, indexed from 1.  The *)
(* two regular expressions of the extractor are modelled by what the       *)
(* backtracking matcher of JavaScript does with them: the alternatives of  *)
(* every greedy quantifier are tried longest first, the leftmost start     *)
(* position that admits a match wins, and a global (/g) pattern resumes at *)
(* lastIndex, the end of the previous match.                               *)
(*                                                                         *)
(* The specifications share the variables; each leaves the variables of    *)
(* the others at rest.  Spec is one call of parseFilesFromResponse,        *)
(* DetectSpec one call of detectLanguage, RoutesSpec the server handling   *)
(* one request at a time, ConcurrentSpec several requests to /api/build    *)
(* whose calls of parseFilesFromResponse are in progress together,         *)
(* AuthSpec the auth routes, ChatSpec one request to /api/assistant/chat,  *)
(* PageSpec the Chat page of the client, DiffSpec the CodeDiff component   *)
(* and RunSpec the requests to /api/run.                                   *)
(***************************************************************************)
EXTENDS Integers, Sequences, FiniteSets, TLC

VARIABLES
    segs,       \* ghost: the pieces the response text was assembled from
    response,   \* the argument of parseFilesFromResponse
    pc,         \* position in parseFilesFromResponse
    lastIndex,  \* lastIndex of the pattern being scanned (1-based here)
    files,      \* the local array `files`
    matches,    \* ghost: every successful exec() so far, in order
    argPath,    \* the argument of a call of detectLanguage on its own
    detected,   \* what that call returned, Pending before it has
    env,        \* process.env: the two variables getOpenAI reads
    request,    \* the body of the HTTP request being handled
    openai,     \* the client the handler got from getOpenAI
    handler,    \* "idle", "awaiting" (the model call is in flight), "replied"
    reply,      \* the HTTP response sent
    modelCall,  \* ghost: the call of the model by the handler of the request:
                \* "none", "pending", "returned" or "threw"
    calls,      \* the calls of parseFilesFromResponse of concurrent requests
    patterns,   \* lastIndex of each pattern object the calls created
    arrays,     \* the elements of each array the calls created
    admin,      \* ADMIN_USERNAME and ADMIN_PASSWORD
    tokens,     \* the module-level Set `tokens`
    authReply,  \* the response of the auth route to the last request, with the request
    authCount,  \* ghost: the number of requests the auth routes have handled
    issuedAt,   \* ghost: per token, the number of the last login that returned it
    loggedOutAt, \* ghost: per token, the number of the last logout it was shown to
    chatRequest, \* the body of the request to /api/assistant/chat
    chatClient, \* the client its handler got from getOpenAI
    chatPc,     \* the await the handler stands at
    searchResults, \* the local `searchResults`
    conversation, \* the local `conversation`
    chatText,   \* the local `reply`
    stored,     \* the rows the handler has written with storage.createChatMessage
    chatReply,  \* the HTTP response of the handler
    chatTrace,  \* ghost: the searches made, and how the memory fetch, the model call and the writes ended
    pageMessages, \* the state `messages` of the Chat page
    pending,    \* the sends of sendMutation that are in flight
    sendCount,  \* ghost: the number of calls of handleSend so far
    serverHistory, \* the chat rows on the server
    rollback,   \* ghost: the last send that failed and the entries its onError removed
    oldCode,    \* the prop oldCode of CodeDiff
    newCode,    \* the prop newCode of CodeDiff
    diff,       \* what computeDiff returned
    diffPc,     \* "render" before computeDiff has run, "done" after
    runs,       \* the requests to /api/run: body, position, responses sent; ghost: why it ended
    tempDirs    \* the temporary directories on disk, by the number of the request

\* the variables of one call of parseFilesFromResponse
extractorVars == <<segs, response, pc, lastIndex, files, matches>>
\* the variables of one call of detectLanguage
detectVars == <<argPath, detected>>

\* the variables of the server handling one request at a time
routeVars == <<env, request, openai, handler, reply, modelCall>>

\* the variables of the concurrent requests to /api/build
callVars == <<calls, patterns, arrays>>

\* the variables of the auth routes
authVars == <<admin, tokens, authReply, authCount, issuedAt, loggedOutAt>>

\* the variables of /api/assistant/chat
chatVars == <<chatRequest, chatClient, chatPc, searchResults, conversation, chatText, stored, chatReply, chatTrace>>

\* the variables of the Chat page
pageVars == <<pageMessages, pending, sendCount, serverHistory, rollback>>

\* the variables of CodeDiff
diffVars == <<oldCode, newCode, diff, diffPc>>

\* the variables of /api/run
runVars == <<runs, tempDirs>>

vars == <<extractorVars, detectVars, routeVars, callVars, authVars, chatVars, pageVars, diffVars, runVars>>

\* what is left alone by the steps of each part
otherThanExtractor == <<detectVars, routeVars, callVars, authVars, chatVars, pageVars, diffVars, runVars>>
otherThanDetect == <<extractorVars, routeVars, callVars, authVars, chatVars, pageVars, diffVars, runVars>>
otherThanRoutes == <<extractorVars, detectVars, callVars, authVars, chatVars, pageVars, diffVars, runVars>>
otherThanCalls == <<extractorVars, detectVars, routeVars, authVars, chatVars, pageVars, diffVars, runVars>>
otherThanAuth == <<extractorVars, detectVars, routeVars, callVars, chatVars, pageVars, diffVars, runVars>>
otherThanChat == <<extractorVars, detectVars, routeVars, callVars, authVars, pageVars, diffVars, runVars>>
otherThanPage == <<extractorVars, detectVars, routeVars, callVars, authVars, chatVars, diffVars, runVars>>
otherThanDiff == <<extractorVars, detectVars, routeVars, callVars, authVars, chatVars, pageVars, runVars>>
otherThanRun == <<extractorVars, detectVars, routeVars, callVars, authVars, chatVars, pageVars, diffVars>>

----------------------------------------------------------------------------
(* Characters and the character classes of the two patterns.               *)

NL == "\n"
\* the backtick, U+0060 (a string of the module cannot hold the character)
BT == "BT"

Lower == {"a","b","c","d","e","f","g","h","i","j","k","l","m",
          "n","o","p","q","r","s","t","u","v","w","x","y","z"}
Upper == {"A","B","C","D","E","F","G","H","I","J","K","L","M",
          "N","O","P","Q","R","S","T","U","V","W","X","Y","Z"}
Digit == {"0","1","2","3","4","5","6","7","8","9"}

\* \s of a JavaScript regular expression, and the set String.prototype.trim
\* strips (restricted to the ASCII members)
SpaceChars == {" ", "\n", "\t", "\r"}
IsSpace(c) == c \in SpaceChars

\* \w of a JavaScript regular expression
WordChars == Lower \cup Upper \cup Digit \cup {"_"}
IsWord(c) == c \in WordChars

\* String.prototype.toLowerCase, one character
LowerChar(c) ==
    CASE c = "A" -> "a" [] c = "B" -> "b" [] c = "C" -> "c" [] c = "D" -> "d"
      [] c = "E" -> "e" [] c = "F" -> "f" [] c = "G" -> "g" [] c = "H" -> "h"
      [] c = "I" -> "i" [] c = "J" -> "j" [] c = "K" -> "k" [] c = "L" -> "l"
      [] c = "M" -> "m" [] c = "N" -> "n" [] c = "O" -> "o" [] c = "P" -> "p"
      [] c = "Q" -> "q" [] c = "R" -> "r" [] c = "S" -> "s" [] c = "T" -> "t"
      [] c = "U" -> "u" [] c = "V" -> "v" [] c = "W" -> "w" [] c = "X" -> "x"
      [] c = "Y" -> "y" [] c = "Z" -> "z" [] OTHER -> c

toLowerCase(s) == [i \in 1..Len(s) |-> LowerChar(s[i])]

\* s.slice(a-1, b-1): the characters at positions a .. b-1
Slice(s, a, b) == IF b <= a THEN << >> ELSE SubSeq(s, a, b - 1)

\* the least position i >= from with t[i] in the set cs; Len(t)+1 if none
RECURSIVE FirstIn(_, _, _)
FirstIn(t, from, cs) ==
    IF from > Len(t) THEN Len(t) + 1
    ELSE IF t[from] \in cs THEN from
    ELSE FirstIn(t, from + 1, cs)

\* the least position i >= from with t[i] outside the set cs; Len(t)+1 if none
RECURSIVE FirstNotIn(_, _, _)
FirstNotIn(t, from, cs) ==
    IF from > Len(t) THEN Len(t) + 1
    ELSE IF t[from] \notin cs THEN from
    ELSE FirstNotIn(t, from + 1, cs)

\* the greatest position i <= from with t[i] outside the set cs; 0 if none
RECURSIVE LastNotIn(_, _, _)
LastNotIn(t, from, cs) ==
    IF from < 1 THEN 0
    ELSE IF t[from] \notin cs THEN from
    ELSE LastNotIn(t, from - 1, cs)

\* trimStart in the place of trim: the whitespace at the end stays
trim_StartOnly(s) == Slice(s, FirstNotIn(s, 1, SpaceChars), Len(s) + 1)

\* String.prototype.trim
trim(s) ==
    LET lo == FirstNotIn(s, 1, SpaceChars)
    IN  IF lo > Len(s) THEN << >>
        ELSE SubSeq(s, lo, LastNotIn(s, Len(s), SpaceChars))

\* the literal lit stands in t at position i
LitAt(t, i, lit) ==
    /\ i >= 1
    /\ i + Len(lit) - 1 <= Len(t)
    /\ \A j \in 1..Len(lit) : t[i + j - 1] = lit[j]

\* String.prototype.includes
includes(s, lit) == \E i \in 1..(Len(s) - Len(lit) + 1) : LitAt(s, i, lit)

----------------------------------------------------------------------------
(* detectLanguage                                                          *)

\* path.extname of Node (posix): the text from the last "." of the last
\* path component to its end (separators at the end of the path are not part
\* of the component); empty when the component has no ".", when its only
\* "." is its first character, and when the component is "..".
extname(p) ==
    LET nonSep    == {i \in 1..Len(p) : p[i] # "/"}
        end       == IF nonSep = {} THEN 0
                     ELSE 1 + CHOOSE i \in nonSep : \A j \in nonSep : j <= i
        seps      == {i \in 1..(end - 1) : p[i] = "/"}
        startPart == IF seps = {} THEN 1
                     ELSE 1 + CHOOSE i \in seps : \A j \in seps : j <= i
        dots      == {i \in startPart..(end - 1) : p[i] = "."}
        startDot  == IF dots = {} THEN 0
                     ELSE CHOOSE i \in dots : \A j \in dots : j <= i
    IN  IF \/ end = 0
           \/ startDot = 0
           \/ startDot = startPart
           \/ (p[startPart] = "." /\ startDot = end - 1 /\ startDot = startPart + 1)
        THEN << >>
        ELSE Slice(p, startDot, end)

L_typescript == <<"t","y","p","e","s","c","r","i","p","t">>
L_tsx        == <<"t","s","x">>
L_javascript == <<"j","a","v","a","s","c","r","i","p","t">>
L_jsx        == <<"j","s","x">>
L_python     == <<"p","y","t","h","o","n">>
L_json       == <<"j","s","o","n">>
L_html       == <<"h","t","m","l">>
L_css        == <<"c","s","s">>
L_markdown   == <<"m","a","r","k","d","o","w","n">>
L_yaml       == <<"y","a","m","l">>
L_sql        == <<"s","q","l">>
L_plaintext  == <<"p","l","a","i","n","t","e","x","t">>

\* a table that knows only the extensions of TypeScript
langMap_TsOnly ==
    { << <<".","t","s">>,          <<"t","y","p","e","s","c","r","i","p","t">> >>,
      << <<".","t","s","x">>,      <<"t","s","x">> >> }

\* the object literal langMap, as a set of <<key, value>> pairs
langMap ==
    { << <<".","t","s">>,          L_typescript >>,
      << <<".","t","s","x">>,      L_tsx >>,
      << <<".","j","s">>,          L_javascript >>,
      << <<".","j","s","x">>,      L_jsx >>,
      << <<".","p","y">>,          L_python >>,
      << <<".","j","s","o","n">>,  L_json >>,
      << <<".","h","t","m","l">>,  L_html >>,
      << <<".","c","s","s">>,      L_css >>,
      << <<".","m","d">>,          L_markdown >>,
      << <<".","y","m","l">>,      L_yaml >>,
      << <<".","y","a","m","l">>,  L_yaml >>,
      << <<".","s","q","l">>,      L_sql >>,
      << <<".","e","n","v">>,      L_plaintext >>,
      << <<".","g","i","t","i","g","n","o","r","e">>, L_plaintext >> }

\* detectLanguage without toLowerCase: the table looked up with the extension
\* as written
detectLanguage_CaseSensitive(filePath) ==
    LET ext == extname(filePath)
        hit == {kv \in langMap : kv[1] = ext}
    IN  IF hit = {} THEN L_plaintext ELSE (CHOOSE kv \in hit : TRUE)[2]

\* langMap[ext] || "plaintext"
detectLanguage(filePath) ==
    LET ext == toLowerCase(extname(filePath))
        hit == {kv \in langMap : kv[1] = ext}
    IN  IF hit = {} THEN L_plaintext ELSE (CHOOSE kv \in hit : TRUE)[2]

----------------------------------------------------------------------------
(* The two patterns.                                                       *)

Fence == <<BT, BT, BT>>
FileMarker == <<"F","I","L","E",":">>

NoMatch == [found |-> FALSE]

\* a block that only a fence at the start of a line closes
RECURSIVE FirstFence_LineStart(_, _)
FirstFence_LineStart(t, from) ==
    IF from > Len(t) THEN Len(t) + 1
    ELSE IF LitAt(t, from, Fence) /\ from > 1 /\ t[from - 1] = NL THEN from
    ELSE FirstFence_LineStart(t, from + 1)

\* the least position f >= from where a fence stands; Len(t)+1 if none
RECURSIVE FirstFence(_, _)
FirstFence(t, from) ==
    IF from > Len(t) THEN Len(t) + 1
    ELSE IF LitAt(t, from, Fence) THEN from
    ELSE FirstFence(t, from + 1)

\* a pattern that asks for no fences: \n, then the text up to the next fence
\* or the end of the text
FenceTail_NoFences(t, e) ==
    IF ~(e <= Len(t) /\ t[e] = NL) THEN NoMatch
    ELSE LET f == FirstFence(t, e + 1)
         IN  [found |-> TRUE, g2 |-> << >>, g3 |-> Slice(t, e + 1, f),
              end |-> IF f > Len(t) THEN f ELSE f + Len(Fence)]

\* \n```(\w*)\n([\s\S]*?)``` at position e.  (\w*) is greedy and the \n after
\* it cannot stand on a word character, so only the whole run of word
\* characters can succeed; ([\s\S]*?) is lazy, so it ends at the first fence.
FenceTail(t, e) ==
    IF ~(e <= Len(t) /\ t[e] = NL /\ LitAt(t, e + 1, Fence)) THEN NoMatch
    ELSE LET w  == e + 1 + Len(Fence)
             we == FirstNotIn(t, w, WordChars)
         IN  IF ~(we <= Len(t) /\ t[we] = NL) THEN NoMatch
             ELSE LET f == FirstFence(t, we + 1)
                  IN  IF f > Len(t) THEN NoMatch
                      ELSE [found |-> TRUE, g2 |-> Slice(t, w, we),
                            g3 |-> Slice(t, we + 1, f), end |-> f + Len(Fence)]

\* ([^\n]+)\n```(\w*)\n([\s\S]*?)``` at position p.  ([^\n]+) is greedy and
\* is followed by \n, so it can only succeed as the rest of the line.
PathTail(t, p) ==
    LET e == FirstIn(t, p, {NL})
    IN  IF e <= p THEN NoMatch
        ELSE LET tail == FenceTail(t, e)
             IN  IF ~tail.found THEN NoMatch
                 ELSE [g1 |-> Slice(t, p, e)] @@ tail

\* \s*([^\n]+)... with \s* ending at k, then at k-1, ... down to s0: \s* is
\* greedy, so the longest run of whitespace that lets the rest match wins
RECURSIVE FileFrom(_, _, _)
FileFrom(t, k, s0) ==
    IF k < s0 THEN NoMatch
    ELSE LET m == PathTail(t, k)
         IN  IF m.found THEN m ELSE FileFrom(t, k - 1, s0)

\* /FILE:\s*([^\n]+)\n```(\w*)\n([\s\S]*?)```/ tried at start position i
FileAt(t, i) ==
    IF ~LitAt(t, i, FileMarker) THEN NoMatch
    ELSE LET s0 == i + Len(FileMarker)
             m  == FileFrom(t, FirstNotIn(t, s0, SpaceChars), s0)
         IN  IF ~m.found THEN NoMatch ELSE [index |-> i] @@ m

\* ([^`\n]+)`?\n```... at position q.  ([^`\n]+) is greedy and what follows
\* it is a backtick or \n, so it can only succeed as the whole run up to the
\* next backtick or \n; a backtick there is taken by `? and \n must follow.
AltTail(t, q) ==
    LET r == FirstIn(t, q, {BT, NL})
    IN  IF r <= q THEN NoMatch
        ELSE LET tail == FenceTail(t, IF r <= Len(t) /\ t[r] = BT THEN r + 1 ELSE r)
             IN  IF ~tail.found THEN NoMatch
                 ELSE [g1 |-> Slice(t, q, r)] @@ tail

\* \s*`?([^`\n]+)... with \s* ending at k, then at k-1, ... down to s0; at
\* each k the optional backtick is first taken, then left out
RECURSIVE AltFrom(_, _, _)
AltFrom(t, k, s0) ==
    IF k < s0 THEN NoMatch
    ELSE LET taken == IF k <= Len(t) /\ t[k] = BT THEN AltTail(t, k + 1) ELSE NoMatch
         IN  IF taken.found THEN taken
             ELSE LET left == AltTail(t, k)
                  IN  IF left.found THEN left ELSE AltFrom(t, k - 1, s0)

\* the alternatives of (?:#{2,3}|####) in the order the matcher tries them:
\* #{2,3} is greedy (three, then two), then ####
HashRuns == << <<"#","#","#">>, <<"#","#">>, <<"#","#","#","#">> >>

\* the alternatives h, h+1, ... of the hash run at start position i
RECURSIVE AltHash(_, _, _)
AltHash(t, i, h) ==
    IF h > Len(HashRuns) THEN NoMatch
    ELSE LET s0 == i + Len(HashRuns[h])
             m  == IF LitAt(t, i, HashRuns[h])
                   THEN AltFrom(t, FirstNotIn(t, s0, SpaceChars), s0)
                   ELSE NoMatch
         IN  IF m.found THEN m ELSE AltHash(t, i, h + 1)

\* /(?:#{2,3}|####)\s*`?([^`\n]+)`?\n```(\w*)\n([\s\S]*?)```/ tried at start
\* position i
AltAt(t, i) ==
    LET m == AltHash(t, i, 1)
    IN  IF ~m.found THEN NoMatch ELSE [index |-> i] @@ m

\* filePattern.exec(response) with filePattern.lastIndex = from - 1: the
\* leftmost start position at or after lastIndex that admits a match
RECURSIVE filePattern(_, _)
filePattern(t, from) ==
    IF from > Len(t) THEN NoMatch
    ELSE LET m == FileAt(t, from)
         IN  IF m.found THEN m ELSE filePattern(t, from + 1)

\* altPattern.exec(response) with altPattern.lastIndex = from - 1
RECURSIVE altPattern(_, _)
altPattern(t, from) ==
    IF from > Len(t) THEN NoMatch
    ELSE LET m == AltAt(t, from)
         IN  IF m.found THEN m ELSE altPattern(t, from + 1)

----------------------------------------------------------------------------
(* The texts the model completion may hold.  A response is the             *)
(* concatenation of at most MaxSegs pieces: whole blocks in the format the *)
(* builder prompt asks for, whole blocks under a markdown heading, and raw *)
(* fragments (a marker, a fence, a line break) that make malformed text.   *)

MaxSegs == 3

\* FILE: <path>\n```<tag>\n<body>\n```\n
FileBlock(path, tag, body) ==
    FileMarker \o <<" ">> \o path \o <<NL>> \o Fence \o tag \o <<NL>>
        \o body \o <<NL>> \o Fence \o <<NL>>

\* ## <path>\n```<tag>\n<body>\n```\n, the path in backticks when wrapped
HeadingBlock(hashes, wrapped, path, tag, body) ==
    hashes \o <<" ">> \o (IF wrapped THEN <<BT>> \o path \o <<BT>> ELSE path)
        \o <<NL>> \o Fence \o tag \o <<NL>> \o body \o <<NL>> \o Fence \o <<NL>>

Pieces == <<
    [kind |-> "file", path |-> <<"a",".","t","s">>, tag |-> <<"t","s">>,
     body |-> <<"x">>],
    [kind |-> "file", path |-> <<"B",".","P","Y">>, tag |-> << >>,
     body |-> <<" ","y">>],
    [kind |-> "file", path |-> <<"m",".","c">>, tag |-> <<"c","+","+">>,
     body |-> <<"z">>],
    [kind |-> "file", path |-> <<"e">>, tag |-> << >>, body |-> <<"w">>],
    [kind |-> "file", path |-> << >>, tag |-> << >>, body |-> <<"v">>],
    [kind |-> "file", path |-> <<"g",".","m","d">>, tag |-> << >>,
     body |-> << >>],
    [kind |-> "heading", hashes |-> <<"#","#">>, wrapped |-> TRUE,
     path |-> <<"a",".","t","s">>, tag |-> <<"t","s">>, body |-> <<"x">>],
    [kind |-> "heading", hashes |-> <<"#","#","#">>, wrapped |-> FALSE,
     path |-> <<"c",".","r","s">>, tag |-> << >>, body |-> <<" ","y">>],
    [kind |-> "heading", hashes |-> <<"#","#">>, wrapped |-> FALSE,
     path |-> <<"O","v">>, tag |-> << >>, body |-> <<"x">>],
    [kind |-> "raw", text |-> FileMarker],
    [kind |-> "raw", text |-> <<NL>>],
    [kind |-> "raw", text |-> Fence],
    [kind |-> "raw", text |-> <<"#","#">>],
    [kind |-> "raw", text |-> <<"o","k",NL,"s","e","e"," ">>]
>>

Render(p) ==
    CASE p.kind = "file"    -> FileBlock(p.path, p.tag, p.body)
      [] p.kind = "heading" -> HeadingBlock(p.hashes, p.wrapped, p.path, p.tag, p.body)
      [] OTHER              -> p.text

RECURSIVE Flatten(_)
Flatten(ids) ==
    IF ids = << >> THEN << >>
    ELSE Render(Pieces[Head(ids)]) \o Flatten(Tail(ids))

SegSeqs == UNION {[1..n -> 1..Len(Pieces)] : n \in 0..MaxSegs}

----------------------------------------------------------------------------
(* parseFilesFromResponse, one action per evaluation of a loop condition.  *)

\* the language always derived from the path, the tag of the fence ignored
Language_IgnoreTag(tag, filePath) == detectLanguage(filePath)

\* match[2] || detectLanguage(filePath)
Language(tag, filePath) == IF tag # << >> THEN tag ELSE detectLanguage(filePath)

\* the primary loop pushing every match
KeepPrimary_NoCheck(filePath, content) == TRUE

\* if (filePath && content), the primary loop
KeepPrimary(filePath, content) == filePath # << >> /\ content # << >>

\* the fallback loop without the test for "."
KeepFallback_NoDot(filePath, content) == filePath # << >> /\ content # << >>

\* if (filePath && content && filePath.includes(".")), the fallback loop
KeepFallback(filePath, content) ==
    filePath # << >> /\ content # << >> /\ includes(filePath, <<".">>)

\* the alternative pattern tried whatever the primary loop found
TryFallback_Always(fs) == TRUE

\* if (files.length === 0)
TryFallback(fs) == Len(fs) = 0

\* a pattern without the g flag: exec() starts over at the same place
NextIndex_NoAdvance(m) == m.index

\* a scan that resumes after the marker of the match, inside its block
NextIndex_AfterMarker(m) == m.index + Len(FileMarker)

\* lastIndex of a global pattern after a successful exec()
NextIndex(m) == m.end

\* a push that replaces an earlier record of the same path
push_MergeByPath(fs, rec) ==
    IF \E i \in 1..Len(fs) : fs[i].path = rec.path
    THEN [i \in 1..Len(fs) |-> IF fs[i].path = rec.path THEN rec ELSE fs[i]]
    ELSE Append(fs, rec)

\* files.push({ path: filePath, content, language })
push(fs, rec) == Append(fs, rec)

FileRecord(m) ==
    [path     |-> trim(m.g1),
     content  |-> trim(m.g3),
     language |-> Language(m.g2, trim(m.g1))]

Seen(phase, m, kept) ==
    [phase |-> phase, kept |-> kept] @@ m

\* the only element of a set of one element
The(S) == CHOOSE x \in S : TRUE

\* the primary loop run to its end from lastIndex = from with the array fs
RECURSIVE ScanPrimary(_, _, _)
ScanPrimary(t, from, fs) ==
    The({IF ~match.found THEN fs
         ELSE The({ScanPrimary(t, NextIndex(match), pushed) :
                     pushed \in {The({IF KeepPrimary(rec.path, rec.content)
                                      THEN push(fs, rec) ELSE fs :
                                        rec \in {FileRecord(match)}})}}) :
           match \in {filePattern(t, from)}})

\* the loop of the alternative pattern run to its end
RECURSIVE ScanFallback(_, _, _)
ScanFallback(t, from, fs) ==
    The({IF ~match.found THEN fs
         ELSE The({ScanFallback(t, NextIndex(match), pushed) :
                     pushed \in {The({IF KeepFallback(rec.path, rec.content)
                                      THEN push(fs, rec) ELSE fs :
                                        rec \in {FileRecord(match)}})}}) :
           match \in {altPattern(t, from)}})

\* what a call of parseFilesFromResponse on the text t returns
parseFilesFromResponse(t) ==
    The({IF TryFallback(primary) THEN ScanFallback(t, 1, primary) ELSE primary :
           primary \in {ScanPrimary(t, 1, << >>)}})

\* the result of a call that has not returned
\* (a one-element sequence that is no text: a text holds single characters)
Pending == <<"pending">>
\* no call of detectLanguage on its own is under way
NoDetect == argPath = << >> /\ detected = Pending

\* a text that is absent (undefined, null)
Null == <<"null">>
\* the null that getOpenAI returns
NoClient == [apiKey |-> "none", baseURL |-> "none"]
NoRequest == [route |-> "none"]

NoReply == [status |-> 0]

\* no request is being handled
NoRoutes ==
    /\ env = [AI_INTEGRATIONS_OPENAI_BASE_URL |-> "unset", OPENAI_API_KEY |-> "unset"]
    /\ request = NoRequest
    /\ openai = NoClient
    /\ handler = "idle"
    /\ reply = NoReply
    /\ modelCall = "none"

\* no concurrent requests to /api/build
NoCalls == calls = << >> /\ patterns = << >> /\ arrays = << >>


\* a field that a request body, a header or the environment does not hold
Undefined == <<"undefined">>
\* the auth routes have handled no request
NoAuth ==
    /\ admin = [username |-> << >>, password |-> << >>]
    /\ tokens = {}
    /\ authReply = NoReply
    /\ authCount = 0
    /\ issuedAt = << >>
    /\ loggedOutAt = << >>


\* what the handler of /api/assistant/chat is known to have done
NoChatTrace == [searches |-> 0, memory |-> "none", model |-> "none",
                saves |-> << >>]
\* /api/assistant/chat has received no request
NoChat ==
    /\ chatRequest = NoRequest
    /\ chatClient = NoClient
    /\ chatPc = "idle"
    /\ searchResults = << >>
    /\ conversation = << >>
    /\ chatText = << >>
    /\ stored = << >>
    /\ chatReply = NoReply
    /\ chatTrace = NoChatTrace


\* no send of the Chat page has failed
NoRollback == [send |-> 0, removed |-> << >>]
\* the Chat page is not mounted
NoPage ==
    /\ pageMessages = << >>
    /\ pending = {}
    /\ sendCount = 0
    /\ serverHistory = << >>
    /\ rollback = NoRollback


\* CodeDiff is not rendered
NoDiff ==
    /\ oldCode = << >>
    /\ newCode = << >>
    /\ diff = << >>
    /\ diffPc = "idle"


\* /api/run has received no request
NoRun == runs = << >> /\ tempDirs = {}

Init ==
    /\ segs \in SegSeqs
    /\ response = Flatten(segs)
    /\ pc = "primary"
    /\ lastIndex = 1
    /\ files = << >>
    /\ matches = << >>
    /\ NoDetect
    /\ NoRoutes
    /\ NoCalls
    /\ NoAuth
    /\ NoChat
    /\ NoPage
    /\ NoDiff
    /\ NoRun

\* while ((match = filePattern.exec(response)) !== null) { ... }, a match
PrimaryMatch ==
    /\ pc = "primary"
    /\ \E match \in {filePattern(response, lastIndex)} :
           /\ match.found
           /\ \E rec \in {FileRecord(match)} :
                  \E kept \in {KeepPrimary(rec.path, rec.content)} :
                     /\ files' = IF kept THEN push(files, rec) ELSE files
                     /\ matches' = Append(matches, Seen("primary", match, kept))
           /\ lastIndex' = NextIndex(match)
    /\ UNCHANGED <<segs, response, pc>>
    /\ UNCHANGED otherThanExtractor

\* filePattern.exec returns null: the loop ends, and files.length decides
\* whether the alternative pattern is tried
PrimaryEnd ==
    /\ pc = "primary"
    /\ ~filePattern(response, lastIndex).found
    /\ pc' = IF TryFallback(files) THEN "fallback" ELSE "done"
    /\ lastIndex' = 1
    /\ UNCHANGED <<segs, response, files, matches>>
    /\ UNCHANGED otherThanExtractor

\* while ((match = altPattern.exec(response)) !== null) { ... }, a match
FallbackMatch ==
    /\ pc = "fallback"
    /\ \E match \in {altPattern(response, lastIndex)} :
           /\ match.found
           /\ \E rec \in {FileRecord(match)} :
                  \E kept \in {KeepFallback(rec.path, rec.content)} :
                     /\ files' = IF kept THEN push(files, rec) ELSE files
                     /\ matches' = Append(matches, Seen("fallback", match, kept))
           /\ lastIndex' = NextIndex(match)
    /\ UNCHANGED <<segs, response, pc>>
    /\ UNCHANGED otherThanExtractor

\* altPattern.exec returns null: return files
FallbackEnd ==
    /\ pc = "fallback"
    /\ ~altPattern(response, lastIndex).found
    /\ pc' = "done"
    /\ lastIndex' = 1
    /\ UNCHANGED <<segs, response, files, matches>>
    /\ UNCHANGED otherThanExtractor

Next == PrimaryMatch \/ PrimaryEnd \/ FallbackMatch \/ FallbackEnd

Spec == Init /\ [][Next]_vars

TypeOK ==
    /\ pc \in {"primary", "fallback", "done"}
    /\ lastIndex \in 1..(Len(response) + 1)
    /\ Len(files) <= Len(matches)

\* the call stepped through its loops returns what the call as a whole does
ReturnsParseResult == pc = "done" => files = parseFilesFromResponse(response)

----------------------------------------------------------------------------
(* detectLanguage called on its own, on paths made of a directory and file *)
(* stem and an ending: every key of the table as written and in other      *)
(* cases, endings the table does not hold, and no ending at all.           *)

Stems == { << >>, <<"a">>, <<"A">>, <<"s","r","c","/">>, <<"s","r","c","/","a">>,
           <<"a",".","b">>, <<".">>, <<"d",".","t","s","/","a">> }

Endings ==
    {kv[1] : kv \in langMap} \cup
    { << >>, <<".">>, <<".","T","S">>, <<".","T","s","x">>, <<".","J","S","O","N">>,
      <<".","Y","m","l">>, <<".","E","N","V">>, <<".","c">>, <<".","t">>,
      <<".","t","s","x","x">>, <<".","t","x","t">>, <<".","t","s",".","b","a","k">>,
      <<".","y","a","m","l",".","j","s">>, <<"t","s">>, <<"_","p","y">> }

DetectPaths == {st \o en : st \in Stems, en \in Endings}

\* no call of parseFilesFromResponse is under way
NoExtract ==
    /\ segs = << >>
    /\ response = << >>
    /\ pc = "done"
    /\ lastIndex = 1
    /\ files = << >>
    /\ matches = << >>

DetectInit ==
    /\ argPath \in DetectPaths
    /\ detected = Pending
    /\ NoExtract
    /\ NoRoutes
    /\ NoCalls
    /\ NoAuth
    /\ NoChat
    /\ NoPage
    /\ NoDiff
    /\ NoRun

\* return langMap[ext] || "plaintext"
Detect ==
    /\ detected = Pending
    /\ detected' = detectLanguage(argPath)
    /\ UNCHANGED argPath
    /\ UNCHANGED otherThanDetect

DetectNext == Detect

DetectSpec == DetectInit /\ [][DetectNext]_vars

----------------------------------------------------------------------------
(* The routes that ask getOpenAI for a client, and /api/download-project,  *)
(* one request at a time.  A string of the request or of the environment   *)
(* is "unset" (undefined), "empty" ("") or "set" (a non-empty string).     *)

StringStates == {"unset", "empty", "set"}

\* the truthiness of a string or undefined
Truthy(v) == v = "set"

CustomClient      == [apiKey |-> "customKey", baseURL |-> "default"]
IntegrationClient == [apiKey  |-> "AI_INTEGRATIONS_OPENAI_API_KEY",
                      baseURL |-> "AI_INTEGRATIONS_OPENAI_BASE_URL"]
EnvKeyClient      == [apiKey |-> "OPENAI_API_KEY", baseURL |-> "default"]

\* the key of the environment taken before the key of the caller
getOpenAI_EnvFirst(customKey) ==
    IF Truthy(env.OPENAI_API_KEY) THEN EnvKeyClient
    ELSE IF Truthy(env.AI_INTEGRATIONS_OPENAI_BASE_URL) THEN IntegrationClient
    ELSE IF Truthy(customKey) THEN CustomClient
    ELSE NoClient

\* Priority: Custom key > Replit AI Integrations > Env key
getOpenAI(customKey) ==
    IF Truthy(customKey) THEN CustomClient
    ELSE IF Truthy(env.AI_INTEGRATIONS_OPENAI_BASE_URL) THEN IntegrationClient
    ELSE IF Truthy(env.OPENAI_API_KEY) THEN EnvKeyClient
    ELSE NoClient

R_chat     == "/api/assistant/chat"
R_search   == "/api/assistant/search"
R_image    == "/api/generate-image"
R_analyze  == "/api/analyze-zip"
R_build    == "/api/build"
R_download == "/api/download-project"

ModelRoutes == {R_chat, R_search, R_image, R_analyze, R_build}

\* what the route needs besides the key (query, prompt, uploaded file):
\* "missing", "blank" (a query of whitespace only, a prompt of whitespace
\* only, an archive that holds no code file) or "ok"
InputStates == {"missing", "blank", "ok"}

\* the test each handler makes before it asks for a client
InputRejected(route, input) ==
    CASE route = R_chat    -> FALSE
      [] route = R_search  -> input \in {"missing", "blank"}
      [] route = R_image   -> input = "missing"
      [] route = R_analyze -> input = "missing"
      [] route = R_build   -> input = "missing"

\* the handler answers 400 after it has a client and before it calls the
\* model: if (!codeContent)
RejectedWithClient(route, input) == route = R_analyze /\ input = "blank"

Reply400(error) == [status |-> 400, error |-> error]
Reply500(error) == [status |-> 500, error |-> error]
Reply200 == [status |-> 200]

\* the texts a completion of /api/build may hold: at most MaxParts pieces
MaxParts == 2

\* the character U+00E9, two bytes in UTF-8
EAcute == "U+00E9"

BuildPieces == <<
    [kind |-> "file", path |-> <<"a",".","t","s">>, tag |-> <<"t","s">>,
     body |-> <<"x">>],
    [kind |-> "file", path |-> <<"/","a",".","t","s">>, tag |-> << >>,
     body |-> <<EAcute," ","y">>],
    [kind |-> "file", path |-> <<"/","/","s","/","B",".","P","Y">>, tag |-> << >>,
     body |-> <<"z"," ">>],
    [kind |-> "file", path |-> <<"e">>, tag |-> << >>, body |-> << >>],
    [kind |-> "heading", hashes |-> <<"#","#">>, wrapped |-> TRUE,
     path |-> <<"a",".","t","s">>, tag |-> <<"t","s">>, body |-> <<"x">>],
    [kind |-> "raw", text |-> <<"o","k",NL,"s","e","e"," ">>],
    [kind |-> "raw", text |-> Fence],
    [kind |-> "file", path |-> <<"q",".","m","d">>, tag |-> << >>,
     body |-> <<"x",BT,BT,BT,"y">>]
>>

RECURSIVE Join(_)
Join(parts) ==
    IF parts = << >> THEN << >>
    ELSE Render(BuildPieces[Head(parts)]) \o Join(Tail(parts))

BuildTexts ==
    {Join(parts) : parts \in UNION {[1..n -> 1..Len(BuildPieces)] : n \in 0..MaxParts}}

\* completion.choices[0]?.message?.content
Contents == BuildTexts \cup {Null}

\* content || ""
OrEmpty(content) == IF content = Null THEN << >> ELSE content

\* a build that fails when the extractor finds no file
BuildReply_FailWhenEmpty(rawResponse, fs) ==
    IF fs = << >> THEN [status |-> 500, error |-> "Build failed"]
    ELSE [status |-> 200, rawResponse |-> rawResponse, files |-> fs,
          fileCount |-> Len(fs)]

\* res.json({ rawResponse, files, fileCount: files.length, ... })
BuildReply(rawResponse, fs) ==
    [status |-> 200, rawResponse |-> rawResponse, files |-> fs,
     fileCount |-> Len(fs)]

RoutesInit ==
    /\ env \in [{"AI_INTEGRATIONS_OPENAI_BASE_URL", "OPENAI_API_KEY"} -> StringStates]
    /\ request = NoRequest
    /\ openai = NoClient
    /\ handler = "idle"
    /\ reply = NoReply
    /\ modelCall = "none"
    /\ NoExtract
    /\ NoDetect
    /\ NoCalls
    /\ NoAuth
    /\ NoChat
    /\ NoPage
    /\ NoDiff
    /\ NoRun

\* a request arrives at one of the five routes; its handler runs up to its
\* first answer or up to the call of the model
Arrive ==
    /\ handler \in {"idle", "replied"}
    /\ \E route \in ModelRoutes, apiKey \in StringStates, input \in InputStates :
           /\ request' = [route |-> route, apiKey |-> apiKey, input |-> input]
           /\ IF InputRejected(route, input)
              THEN /\ openai' = NoClient
                   /\ reply' = Reply400("input required")
                   /\ handler' = "replied"
                   /\ modelCall' = "none"
              ELSE /\ openai' = getOpenAI(apiKey)
                   /\ IF openai' = NoClient
                      THEN /\ reply' = Reply400("OpenAI API key required")
                           /\ handler' = "replied"
                           /\ modelCall' = "none"
                      ELSE IF RejectedWithClient(route, input)
                      THEN /\ reply' = Reply400("No code files found in ZIP")
                           /\ handler' = "replied"
                           /\ modelCall' = "none"
                      ELSE /\ reply' = NoReply
                           /\ handler' = "awaiting"
                           /\ modelCall' = "pending"
    /\ UNCHANGED env
    /\ UNCHANGED otherThanRoutes

\* the call of the model returns; the handler goes on to its answer
ModelReturns ==
    /\ handler = "awaiting"
    /\ \E content \in Contents :
           \E rawResponse \in {OrEmpty(content)} :
               reply' =
                   CASE request.route = R_build ->
                            BuildReply(rawResponse,
                                       parseFilesFromResponse(rawResponse))
                     [] request.route = R_image /\ content = Null ->
                            Reply500("Image generation failed")
                     [] OTHER -> Reply200
    /\ handler' = "replied"
    /\ modelCall' = "returned"
    /\ UNCHANGED <<env, request, openai>>
    /\ UNCHANGED otherThanRoutes

\* the call of the model throws; processNLUQuery catches what it throws
ModelThrows ==
    /\ handler = "awaiting"
    /\ reply' = CASE request.route = R_search  -> Reply200
                  [] request.route = R_chat    -> Reply500("Assistant temporarily unavailable")
                  [] request.route = R_image   -> Reply500("Image generation failed")
                  [] request.route = R_analyze -> Reply500("Analysis failed")
                  [] request.route = R_build   -> Reply500("Build failed")
    /\ handler' = "replied"
    /\ modelCall' = "threw"
    /\ UNCHANGED <<env, request, openai>>
    /\ UNCHANGED otherThanRoutes

\* only the first "/" of the path removed
StripLeadingSlashes_One(p) ==
    IF p # << >> /\ p[1] = "/" THEN Slice(p, 2, Len(p) + 1) ELSE p

\* file.path.replace(/^\/+/, "")
StripLeadingSlashes(p) == Slice(p, FirstNotIn(p, 1, {"/"}), Len(p) + 1)

\* the bytes of one character in UTF-8; the byte of an ASCII character is
\* written as the character
Utf8Char(c) == IF c = EAcute THEN <<"C3", "A9">> ELSE <<c>>

\* Buffer.from(content, "utf-8")
RECURSIVE BufferFrom(_)
BufferFrom(content) ==
    IF content = << >> THEN << >>
    ELSE Utf8Char(Head(content)) \o BufferFrom(Tail(content))

\* buffer.toString("utf-8"): a byte sequence that is no character decodes to
\* U+FFFD
RECURSIVE toString(_)
toString(bytes) ==
    IF bytes = << >> THEN << >>
    ELSE IF Len(bytes) >= 2 /\ bytes[1] = "C3" /\ bytes[2] = "A9"
    THEN <<EAcute>> \o toString(SubSeq(bytes, 3, Len(bytes)))
    ELSE IF bytes[1] \in {"C3", "A9"}
    THEN <<"U+FFFD">> \o toString(Tail(bytes))
    ELSE <<bytes[1]>> \o toString(Tail(bytes))

\* zip.addFile(entryName, data): the archive as the entries it was given, in
\* the order of the calls
addFile(zip, entryName, data) ==
    Append(zip, [entryName |-> entryName, data |-> data])

\* for (const file of files) { if (file.path && file.content) { ... } }
RECURSIVE AddFiles(_, _)
AddFiles(zip, fs) ==
    IF fs = << >> THEN zip
    ELSE LET file == Head(fs)
         IN  AddFiles(IF file.path # << >> /\ file.content # << >>
                      THEN addFile(zip, StripLeadingSlashes(file.path),
                                   BufferFrom(file.content))
                      ELSE zip,
                      Tail(fs))

\* the answer of /api/download-project to the array fs
DownloadReply(fs) ==
    IF Len(fs) = 0 THEN Reply400("Files are required")
    ELSE [status |-> 200, archive |-> AddFiles(<< >>, fs)]

\* the client posts the files of the build it was answered to
\* /api/download-project
DownloadProject ==
    /\ handler = "replied"
    /\ request.route = R_build
    /\ reply.status = 200
    /\ request' = [route |-> R_download, files |-> reply.files]
    /\ reply' = DownloadReply(reply.files)
    /\ openai' = NoClient
    /\ modelCall' = "none"
    /\ UNCHANGED <<env, handler>>
    /\ UNCHANGED otherThanRoutes

RoutesNext == Arrive \/ ModelReturns \/ ModelThrows \/ DownloadProject

RoutesSpec == RoutesInit /\ [][RoutesNext]_vars

----------------------------------------------------------------------------
(* Concurrent requests to /api/build.  Each request awaits its completion  *)
(* and then calls parseFilesFromResponse on it.  The steps of the calls    *)
(* are interleaved in every order; the orders of a single-threaded         *)
(* runtime, in which a call once begun runs to its end, are among them.    *)
(* Every call evaluates the two pattern literals and the array literal [], *)
(* which creates objects of its own.                                       *)

MaxCalls == 2

Calls == 1..MaxCalls

\* the completions of the concurrent requests
CallSegs == { << >>, <<1, 2>>, <<7, 8>>, <<5, 7>>, <<10, 11, 1>>, <<14, 1>>,
              <<3>>, <<1, 12, 1>> }
CallTexts == {Flatten(ids) : ids \in CallSegs}

\* one pattern object of the module, used by every call
PatternObject_ModuleLevel(c) == 1

\* the pattern object of call c: the literal is evaluated by the call
PatternObject(c) == c

\* the array of call c: const files = []
FilesArray(c) == c

ConcurrentInit ==
    /\ calls = [c \in Calls |-> [pc |-> "awaiting", response |-> << >>]]
    /\ patterns = [c \in Calls |-> 1]
    /\ arrays = [c \in Calls |-> << >>]
    /\ NoExtract
    /\ NoDetect
    /\ NoRoutes
    /\ NoAuth
    /\ NoChat
    /\ NoPage
    /\ NoDiff
    /\ NoRun

\* the completion of request c returns and the handler calls
\* parseFilesFromResponse(rawResponse)
CompletionReturns(c) ==
    /\ calls[c].pc = "awaiting"
    /\ \E text \in CallTexts :
           calls' = [calls EXCEPT ![c] = [pc |-> "primary", response |-> text]]
    /\ patterns' = [patterns EXCEPT ![PatternObject(c)] = 1]
    /\ arrays' = [arrays EXCEPT ![FilesArray(c)] = << >>]
    /\ UNCHANGED otherThanCalls

\* call c: filePattern.exec(response) finds a match
CallPrimaryMatch(c) ==
    /\ calls[c].pc = "primary"
    /\ \E match \in {filePattern(calls[c].response, patterns[PatternObject(c)])} :
           /\ match.found
           /\ \E rec \in {FileRecord(match)} :
                  arrays' = IF KeepPrimary(rec.path, rec.content)
                            THEN [arrays EXCEPT ![FilesArray(c)] = push(@, rec)]
                            ELSE arrays
           /\ patterns' = [patterns EXCEPT ![PatternObject(c)] = NextIndex(match)]
    /\ UNCHANGED calls
    /\ UNCHANGED otherThanCalls

\* call c: filePattern.exec(response) returns null, which sets lastIndex to 0
CallPrimaryEnd(c) ==
    /\ calls[c].pc = "primary"
    /\ ~filePattern(calls[c].response, patterns[PatternObject(c)]).found
    /\ calls' = [calls EXCEPT ![c].pc =
                     IF TryFallback(arrays[FilesArray(c)]) THEN "fallback" ELSE "done"]
    /\ patterns' = [patterns EXCEPT ![PatternObject(c)] = 1]
    /\ UNCHANGED arrays
    /\ UNCHANGED otherThanCalls

\* call c: altPattern.exec(response) finds a match
CallFallbackMatch(c) ==
    /\ calls[c].pc = "fallback"
    /\ \E match \in {altPattern(calls[c].response, patterns[PatternObject(c)])} :
           /\ match.found
           /\ \E rec \in {FileRecord(match)} :
                  arrays' = IF KeepFallback(rec.path, rec.content)
                            THEN [arrays EXCEPT ![FilesArray(c)] = push(@, rec)]
                            ELSE arrays
           /\ patterns' = [patterns EXCEPT ![PatternObject(c)] = NextIndex(match)]
    /\ UNCHANGED calls
    /\ UNCHANGED otherThanCalls

\* call c: altPattern.exec(response) returns null; return files
CallFallbackEnd(c) ==
    /\ calls[c].pc = "fallback"
    /\ ~altPattern(calls[c].response, patterns[PatternObject(c)]).found
    /\ calls' = [calls EXCEPT ![c].pc = "done"]
    /\ patterns' = [patterns EXCEPT ![PatternObject(c)] = 1]
    /\ UNCHANGED arrays
    /\ UNCHANGED otherThanCalls

\* the request is answered; a later request takes its place and awaits its
\* completion
NextRequest(c) ==
    /\ calls[c].pc = "done"
    /\ calls' = [calls EXCEPT ![c] = [pc |-> "awaiting", response |-> << >>]]
    /\ UNCHANGED <<patterns, arrays>>
    /\ UNCHANGED otherThanCalls

ConcurrentNext ==
    \E c \in Calls :
        \/ CompletionReturns(c)
        \/ CallPrimaryMatch(c)
        \/ CallPrimaryEnd(c)
        \/ CallFallbackMatch(c)
        \/ CallFallbackEnd(c)
        \/ NextRequest(c)

ConcurrentSpec == ConcurrentInit /\ [][ConcurrentNext]_vars


----------------------------------------------------------------------------
(* The auth routes: login, verify and logout over the module-level Set     *)
(* `tokens`, one request at a time (the handlers do not await).  A token   *)
(* is a text of hexadecimal digits; crypto.randomBytes may return any.     *)

MaxTokens == 2
MaxRequests == 4

TokenNames == << <<"a","1">>, <<"b","2">>, <<"c","3">>, <<"d","4">> >>
TokenPool == {TokenNames[i] : i \in 1..MaxTokens}

DefaultUsername == <<"a","d","m","i","n">>
DefaultPassword == <<"a","d","m","i","n","1","2","3">>
OtherUsername == <<"r","o","o","t">>
OtherPassword == <<"p","w">>

\* a || b for texts: undefined and "" are falsy
TruthyText(v) == v # Undefined /\ v # << >>
OrDefault(v, d) == IF TruthyText(v) THEN v ELSE d

\* what the environment may hold for ADMIN_USERNAME and ADMIN_PASSWORD
AdminEnvUsernames == {Undefined, << >>, OtherUsername}
AdminEnvPasswords == {Undefined, OtherPassword}

\* what a login request may carry
LoginUsernames == {Undefined, DefaultUsername, OtherUsername}
LoginPasswords == {Undefined, DefaultPassword, OtherPassword}

BearerScheme == <<"B","e","a","r","e","r"," ">>

\* the Authorization headers: none, the scheme alone, a token after the
\* scheme, a token without the scheme
Headers ==
    {Undefined, BearerScheme}
        \cup {BearerScheme \o t : t \in TokenPool}
        \cup TokenPool

\* the least position i >= from where lit stands in s; Len(s)+1 if none
RECURSIVE FirstLit(_, _, _)
FirstLit(s, from, lit) ==
    IF from > Len(s) THEN Len(s) + 1
    ELSE IF LitAt(s, from, lit) THEN from
    ELSE FirstLit(s, from + 1, lit)

\* s.replace(lit, ""): the first occurrence of lit is removed
replace(s, lit) ==
    LET i == FirstLit(s, 1, lit)
    IN  IF i > Len(s) THEN s
        ELSE Slice(s, 1, i) \o Slice(s, i + Len(lit), Len(s) + 1)

\* req.headers.authorization?.replace("Bearer ", "")
HeaderToken(h) == IF h = Undefined THEN Undefined ELSE replace(h, BearerScheme)

\* a logout that forgets every token
LogoutTokens_Clear(set, token) == {}

\* if (token) tokens.delete(token)
LogoutTokens(set, token) == IF TruthyText(token) THEN set \ {token} ELSE set

\* token && tokens.has(token)
VerifyValid(set, token) == TruthyText(token) /\ token \in set

\* username === ADMIN_USERNAME && password === ADMIN_PASSWORD
CredentialsMatch(username, password) ==
    username = admin.username /\ password = admin.password

\* the header h carries the token t, after the scheme or on its own
Presents(h, t) == h = BearerScheme \o t \/ h = t

AuthInit ==
    /\ \E u \in AdminEnvUsernames, p \in AdminEnvPasswords :
           admin = [username |-> OrDefault(u, DefaultUsername),
                    password |-> OrDefault(p, DefaultPassword)]
    /\ tokens = {}
    /\ authReply = NoReply
    /\ authCount = 0
    /\ issuedAt = [t \in TokenPool |-> 0]
    /\ loggedOutAt = [t \in TokenPool |-> 0]
    /\ NoExtract
    /\ NoDetect
    /\ NoRoutes
    /\ NoCalls
    /\ NoChat
    /\ NoPage
    /\ NoDiff
    /\ NoRun

\* POST /api/auth/login with the right credentials
LoginAccepted ==
    /\ authCount < MaxRequests
    /\ \E username \in LoginUsernames, password \in LoginPasswords :
           /\ CredentialsMatch(username, password)
           /\ \E token \in TokenPool :
                  /\ tokens' = tokens \cup {token}
                  /\ issuedAt' = [issuedAt EXCEPT ![token] = authCount + 1]
                  /\ authReply' = [route |-> "login", status |-> 200,
                                   username |-> username,
                                   password |-> password, token |-> token]
    /\ authCount' = authCount + 1
    /\ UNCHANGED <<admin, loggedOutAt>>
    /\ UNCHANGED otherThanAuth

\* POST /api/auth/login with other credentials
LoginRefused ==
    /\ authCount < MaxRequests
    /\ \E username \in LoginUsernames, password \in LoginPasswords :
           /\ ~CredentialsMatch(username, password)
           /\ authReply' = [route |-> "login", status |-> 401,
                            username |-> username,
                            password |-> password, token |-> Undefined]
    /\ authCount' = authCount + 1
    /\ UNCHANGED <<admin, tokens, issuedAt, loggedOutAt>>
    /\ UNCHANGED otherThanAuth

\* GET /api/auth/verify
Verify ==
    /\ authCount < MaxRequests
    /\ \E h \in Headers :
           authReply' =
               IF VerifyValid(tokens, HeaderToken(h))
               THEN [route |-> "verify", status |-> 200, header |-> h,
                     valid |-> TRUE]
               ELSE [route |-> "verify", status |-> 401, header |-> h,
                     valid |-> FALSE]
    /\ authCount' = authCount + 1
    /\ UNCHANGED <<admin, tokens, issuedAt, loggedOutAt>>
    /\ UNCHANGED otherThanAuth

\* POST /api/auth/logout
Logout ==
    /\ authCount < MaxRequests
    /\ \E h \in Headers :
           /\ tokens' = LogoutTokens(tokens, HeaderToken(h))
           /\ loggedOutAt' = [t \in TokenPool |->
                                 IF Presents(h, t) THEN authCount + 1
                                 ELSE loggedOutAt[t]]
           /\ authReply' = [route |-> "logout", status |-> 200, header |-> h]
    /\ authCount' = authCount + 1
    /\ UNCHANGED <<admin, issuedAt>>
    /\ UNCHANGED otherThanAuth

AuthNext == LoginAccepted \/ LoginRefused \/ Verify \/ Logout

AuthSpec == AuthInit /\ [][AuthNext]_vars


----------------------------------------------------------------------------
(* POST /api/assistant/chat, one request, one action per await of the      *)
(* handler: the web search, the fetch of the memory in buildConversation,  *)
(* the model call, and the two writes of the conversation.                 *)

\* searchEnabled of the request body
FlagStates == {"undefined", "false", "true"}
TruthyFlag(v) == v = "true"

\* the contents the last message of a request may hold
LastContents == {
    Undefined,
    << >>,
    <<"h","i">>,
    <<"o","k","?">>,
    <<"W","h","a","t"," ","x">>,
    <<"h","o","w">>,
    <<"W","H","Y">>,
    <<"w","h","e","n","c","e">>,
    <<"W","h","o">>,
    <<"a"," ","L","a","t","e","s","t">>,
    <<"C","U","R","R","E","N","T","S">>,
    <<"i","n","2","0","2","4">>,
    <<"2","0","2","5">>,
    <<" ","w","h","a","t">>,
    <<"s","h","o","w">>,
    <<"2","0","2","3">>
}

EarlierMessages == {
    [role |-> "user", content |-> <<"w","h","y","?">>],
    [role |-> "assistant", content |-> <<"o","k">>]
}

LastMessages ==
    {[role |-> "user", content |-> c] : c \in LastContents}
        \cup {[role |-> "assistant", content |-> <<"o","k","?">>]}

MaxMessages == 2

\* the lists of n earlier messages
RECURSIVE EarlierLists(_)
EarlierLists(n) ==
    IF n = 0 THEN {<< >>}
    ELSE {Append(l, m) : l \in EarlierLists(n - 1), m \in EarlierMessages}

\* messages of a request body that holds none
\* (a one-element list that is no list of messages: its element has no role)
UndefinedList == <<[role |-> "undefined", content |-> Undefined]>>

\* messages of the request body: absent, empty, or up to MaxMessages messages
MessageLists ==
    {UndefinedList, << >>}
        \cup UNION {{Append(l, m) : l \in EarlierLists(n - 1), m \in LastMessages} :
                    n \in 1..MaxMessages}

\* messages?.length > 0
NonEmptyList(messages) == messages # UndefinedList /\ Len(messages) > 0

\* messages || []
OrEmptyList(messages) == IF messages = UndefinedList THEN << >> ELSE messages

\* messages[messages.length - 1]?.content || ""
LastMessageText(messages) ==
    OrDefault(messages[Len(messages)].content, << >>)

\* String.prototype.startsWith
startsWith(s, lit) == LitAt(s, 1, lit)

\* a test that leaves the case of the message as it is
isQuestion_CaseSensitive(lastMessage) ==
    \/ includes(lastMessage, <<"?">>)
    \/ startsWith(lastMessage, <<"w","h","a","t">>)
    \/ startsWith(lastMessage, <<"h","o","w">>)
    \/ startsWith(lastMessage, <<"w","h","y">>)
    \/ startsWith(lastMessage, <<"w","h","e","n">>)
    \/ startsWith(lastMessage, <<"w","h","o">>)
    \/ includes(lastMessage, <<"l","a","t","e","s","t">>)
    \/ includes(lastMessage, <<"c","u","r","r","e","n","t">>)
    \/ includes(lastMessage, <<"2","0","2","4">>)
    \/ includes(lastMessage, <<"2","0","2","5">>)

\* const isQuestion = lastMessage.includes("?") || ...
isQuestion(lastMessage) ==
    \/ includes(lastMessage, <<"?">>)
    \/ startsWith(toLowerCase(lastMessage), <<"w","h","a","t">>)
    \/ startsWith(toLowerCase(lastMessage), <<"h","o","w">>)
    \/ startsWith(toLowerCase(lastMessage), <<"w","h","y">>)
    \/ startsWith(toLowerCase(lastMessage), <<"w","h","e","n">>)
    \/ startsWith(toLowerCase(lastMessage), <<"w","h","o">>)
    \/ includes(toLowerCase(lastMessage), <<"l","a","t","e","s","t">>)
    \/ includes(toLowerCase(lastMessage), <<"c","u","r","r","e","n","t">>)
    \/ includes(toLowerCase(lastMessage), <<"2","0","2","4">>)
    \/ includes(toLowerCase(lastMessage), <<"2","0","2","5">>)

\* if (searchEnabled && messages?.length > 0) { ... if (isQuestion)
SearchWanted(searchEnabled, messages) ==
    /\ TruthyFlag(searchEnabled)
    /\ NonEmptyList(messages)
    /\ isQuestion(LastMessageText(messages))

\* what searchWeb returns: the instant results joined, the notice that there
\* are none, or the notice that the search failed (fetch or json() threw)
SearchOutcomes == {"results", "none", "failed"}
searchWeb(outcome) ==
    CASE outcome = "results" -> <<"Abstract">>
      [] outcome = "none" ->
            <<"No instant results found. Using AI knowledge instead.">>
      [] outcome = "failed" ->
            <<"Search temporarily unavailable. Using AI knowledge.">>

\* what storage.getChatMessages does in buildConversation: it returns rows,
\* returns none, or throws (caught: memoryText stays "")
MemoryOutcomes == {"history", "empty", "failed"}
MemoryText(outcome) ==
    IF outcome = "history" THEN <<"USER: hi">> ELSE << >>

\* return [systemMessage, ...userMessages]
buildConversation(userMessages, memoryText) ==
    <<[role |-> "system",
       content |-> <<"VIPU_SYSTEM_PROMPT">>
                       \o OrDefault(memoryText, <<"(Starting fresh conversation)">>)]>>
        \o userMessages

\* the system message that carries the search results
SearchMessage(results) ==
    [role |-> "system",
     content |-> <<"REAL-TIME WEB SEARCH RESULTS:">> \o results]

\* res.json({ reply, searchUsed: !!searchResults, model: "gpt-4o" })
ChatResponse(text, results) ==
    [status |-> 200, reply |-> text, searchUsed |-> TruthyText(results),
     model |-> "gpt-4o"]

\* a handler that lets the failure of a write reach the outer catch
SaveFailed_Rethrow(r) == Reply500("Assistant temporarily unavailable")

\* catch (err) { console.error("Failed to save chat:", err); }: the handler
\* goes on to the response r
SaveFailed(r) == r

\* the contents a completion may hold
ChatContents == {Null, << >>, <<"o","k">>}

ChatInit ==
    /\ NoChat
    /\ NoExtract
    /\ NoDetect
    /\ NoRoutes
    /\ NoCalls
    /\ NoAuth
    /\ NoPage
    /\ NoDiff
    /\ NoRun

\* the request arrives: getOpenAI, and the test for the search
ChatArrive ==
    /\ chatPc = "idle"
    /\ \E apiKey \in StringStates, searchEnabled \in FlagStates,
          messages \in MessageLists :
           /\ chatRequest' = [route |-> R_chat, apiKey |-> apiKey,
                              searchEnabled |-> searchEnabled,
                              messages |-> messages]
           /\ \E client \in {getOpenAI(apiKey)} :
                  /\ chatClient' = client
                  /\ IF client = NoClient
                     THEN /\ chatReply' = Reply400("OpenAI API key required")
                          /\ chatPc' = "replied"
                     ELSE /\ chatReply' = NoReply
                          /\ chatPc' = IF SearchWanted(searchEnabled, messages)
                                       THEN "search" ELSE "memory"
    /\ UNCHANGED <<searchResults, conversation, chatText, stored, chatTrace>>
    /\ UNCHANGED otherThanChat

\* searchResults = await searchWeb(lastMessage)
SearchReturns ==
    /\ chatPc = "search"
    /\ \E outcome \in SearchOutcomes : searchResults' = searchWeb(outcome)
    /\ chatTrace' = [chatTrace EXCEPT !.searches = @ + 1]
    /\ chatPc' = "memory"
    /\ UNCHANGED <<chatRequest, chatClient, conversation, chatText, stored,
                   chatReply>>
    /\ UNCHANGED otherThanChat

\* conversation = await buildConversation(messages || [], ...), and the push
\* of the search results
ConversationBuilt ==
    /\ chatPc = "memory"
    /\ \E outcome \in MemoryOutcomes :
           /\ conversation' =
                  buildConversation(OrEmptyList(chatRequest.messages),
                                    MemoryText(outcome))
                      \o (IF TruthyText(searchResults)
                          THEN <<SearchMessage(searchResults)>> ELSE << >>)
           /\ chatTrace' = [chatTrace EXCEPT !.memory = outcome]
    /\ chatPc' = "model"
    /\ UNCHANGED <<chatRequest, chatClient, searchResults, chatText, stored,
                   chatReply>>
    /\ UNCHANGED otherThanChat

\* await openai.chat.completions.create(...) returns
ChatCompletionReturns ==
    /\ chatPc = "model"
    /\ \E content \in ChatContents :
           /\ chatText' = OrEmpty(content)
           /\ IF NonEmptyList(chatRequest.messages)
              THEN /\ chatPc' = "saveUser"
                   /\ chatReply' = chatReply
              ELSE /\ chatPc' = "replied"
                   /\ chatReply' = ChatResponse(OrEmpty(content), searchResults)
    /\ chatTrace' = [chatTrace EXCEPT !.model = "returned"]
    /\ UNCHANGED <<chatRequest, chatClient, searchResults, conversation, stored>>
    /\ UNCHANGED otherThanChat

\* await openai.chat.completions.create(...) throws
ChatCompletionThrows ==
    /\ chatPc = "model"
    /\ chatTrace' = [chatTrace EXCEPT !.model = "threw"]
    /\ chatReply' = Reply500("Assistant temporarily unavailable")
    /\ chatPc' = "replied"
    /\ UNCHANGED <<chatRequest, chatClient, searchResults, conversation,
                   chatText, stored>>
    /\ UNCHANGED otherThanChat

\* await storage.createChatMessage({ role: "user", ... }) returns
UserMessageSaved ==
    /\ chatPc = "saveUser"
    /\ stored' = Append(stored,
           [role |-> "user",
            content |-> chatRequest.messages[Len(chatRequest.messages)].content])
    /\ chatTrace' = [chatTrace EXCEPT !.saves = Append(@, "ok")]
    /\ chatPc' = "saveAssistant"
    /\ UNCHANGED <<chatRequest, chatClient, searchResults, conversation,
                   chatText, chatReply>>
    /\ UNCHANGED otherThanChat

\* await storage.createChatMessage({ role: "assistant", ... }) returns
AssistantMessageSaved ==
    /\ chatPc = "saveAssistant"
    /\ stored' = Append(stored, [role |-> "assistant", content |-> chatText])
    /\ chatTrace' = [chatTrace EXCEPT !.saves = Append(@, "ok")]
    /\ chatReply' = ChatResponse(chatText, searchResults)
    /\ chatPc' = "replied"
    /\ UNCHANGED <<chatRequest, chatClient, searchResults, conversation,
                   chatText>>
    /\ UNCHANGED otherThanChat

\* one of the two writes throws
SaveThrows ==
    /\ chatPc \in {"saveUser", "saveAssistant"}
    /\ chatTrace' = [chatTrace EXCEPT !.saves = Append(@, "failed")]
    /\ chatReply' = SaveFailed(ChatResponse(chatText, searchResults))
    /\ chatPc' = "replied"
    /\ UNCHANGED <<chatRequest, chatClient, searchResults, conversation,
                   chatText, stored>>
    /\ UNCHANGED otherThanChat

ChatNext ==
    \/ ChatArrive
    \/ SearchReturns
    \/ ConversationBuilt
    \/ ChatCompletionReturns
    \/ ChatCompletionThrows
    \/ UserMessageSaved
    \/ AssistantMessageSaved
    \/ SaveThrows

ChatSpec == ChatInit /\ [][ChatNext]_vars


----------------------------------------------------------------------------
(* The Chat page (client/src/pages/Chat.tsx): the displayed list           *)
(* `messages`, the sends of sendMutation in flight, and the chat history   *)
(* on the server that the chat-history query reloads the list from.  An    *)
(* entry carries the number of the send it belongs to (0 for rows older    *)
(* than the page); the callbacks of every send run when its response       *)
(* arrives, in any order.                                                  *)

MaxSends == 3

UserEntry(n, mode) == [role |-> "user", of |-> n, mode |-> mode]
AssistantEntry(n, mode) == [role |-> "assistant", of |-> n, mode |-> mode]

\* the rows the server may hold when the page is mounted
OlderHistories == {<< >>, <<UserEntry(0, "chat"), AssistantEntry(0, "chat")>>}

\* setMessages((prev) => prev.slice(0, -1)) of onError
sliceOnError(prev, n) ==
    IF prev = << >> THEN << >> ELSE SubSeq(prev, 1, Len(prev) - 1)

\* the entries of the list prev that the list next no longer holds
RemovedEntries(prev, next) ==
    SelectSeq(prev, LAMBDA e : \A i \in 1..Len(next) : next[i] # e)

PageInit ==
    /\ pageMessages = << >>
    /\ pending = {}
    /\ sendCount = 0
    /\ serverHistory \in OlderHistories
    /\ rollback = NoRollback
    /\ NoExtract
    /\ NoDetect
    /\ NoRoutes
    /\ NoCalls
    /\ NoAuth
    /\ NoChat
    /\ NoDiff
    /\ NoRun

\* handleSend in a mode other than search (the button or the Enter key; the
\* Enter key is not held back while a send is pending)
handleSend ==
    /\ sendCount < MaxSends
    /\ sendCount' = sendCount + 1
    /\ pageMessages' = Append(pageMessages, UserEntry(sendCount + 1, "chat"))
    /\ pending' = pending \cup {sendCount + 1}
    /\ UNCHANGED <<serverHistory, rollback>>
    /\ UNCHANGED otherThanPage

\* handleSend in search mode: the query is displayed and
\* handleIntelligentSearch called
handleSendSearch ==
    /\ sendCount < MaxSends
    /\ sendCount' = sendCount + 1
    /\ pageMessages' = Append(pageMessages, UserEntry(sendCount + 1, "search"))
    /\ UNCHANGED <<pending, serverHistory, rollback>>
    /\ UNCHANGED otherThanPage

\* handleIntelligentSearch posts the query and the answer to /api/chat
searchPersisted ==
    /\ \E n \in 1..sendCount :
           /\ \E i \in 1..Len(pageMessages) : pageMessages[i] = UserEntry(n, "search")
           /\ \A i \in 1..Len(serverHistory) : serverHistory[i].of # n
           /\ serverHistory' = serverHistory
                  \o <<UserEntry(n, "search"), AssistantEntry(n, "search")>>
    /\ UNCHANGED <<pageMessages, pending, sendCount, rollback>>
    /\ UNCHANGED otherThanPage

\* a send is answered 200: onSuccess appends the reply; the server has
\* written the two rows, or has failed to
onSuccess ==
    /\ \E n \in pending :
           /\ pending' = pending \ {n}
           /\ pageMessages' = Append(pageMessages, AssistantEntry(n, "chat"))
           /\ \E saved \in BOOLEAN :
                  serverHistory' =
                      IF saved
                      THEN serverHistory
                               \o <<UserEntry(n, "chat"), AssistantEntry(n, "chat")>>
                      ELSE serverHistory
    /\ UNCHANGED <<sendCount, rollback>>
    /\ UNCHANGED otherThanPage

\* a send is answered with an error, or fetch throws: onError
onError ==
    /\ \E n \in pending :
           /\ pending' = pending \ {n}
           /\ pageMessages' = sliceOnError(pageMessages, n)
           /\ rollback' = [send |-> n,
                           removed |-> RemovedEntries(pageMessages,
                                                      sliceOnError(pageMessages, n))]
    /\ UNCHANGED <<sendCount, serverHistory>>
    /\ UNCHANGED otherThanPage

\* the chat-history query delivers the rows of the server:
\* useEffect(..., [historyData]) replaces the list
historyLoaded ==
    /\ pageMessages' = serverHistory
    /\ UNCHANGED <<pending, sendCount, serverHistory, rollback>>
    /\ UNCHANGED otherThanPage

\* clearHistory: DELETE /api/chat/history, setMessages([])
clearHistory ==
    /\ pageMessages' = << >>
    /\ serverHistory' = << >>
    /\ UNCHANGED <<pending, sendCount, rollback>>
    /\ UNCHANGED otherThanPage

PageNext ==
    \/ handleSend
    \/ handleSendSearch
    \/ searchPersisted
    \/ onSuccess
    \/ onError
    \/ historyLoaded
    \/ clearHistory

PageSpec == PageInit /\ [][PageNext]_vars


----------------------------------------------------------------------------
(* CodeDiff.computeDiff on two texts of at most MaxCode characters.        *)

MaxCode == 4

CodeChars == {"a", "b", NL}

\* the texts of n characters
RECURSIVE CodesOf(_)
CodesOf(n) ==
    IF n = 0 THEN {<< >>}
    ELSE {Append(s, c) : s \in CodesOf(n - 1), c \in CodeChars}

Codes == UNION {CodesOf(n) : n \in 0..MaxCode}

\* s.split("\n")
RECURSIVE split(_)
split(s) ==
    IF FirstIn(s, 1, {NL}) > Len(s) THEN <<s>>
    ELSE <<Slice(s, 1, FirstIn(s, 1, {NL}))>>
             \o split(Slice(s, FirstIn(s, 1, {NL}) + 1, Len(s) + 1))

\* lines[idx] of an array (idx from 1 here): undefined past its end
LineAt(lines, idx) == IF idx <= Len(lines) THEN lines[idx] ELSE Undefined

\* Array.prototype.includes
arrayIncludes(lines, line) == \E i \in 1..Len(lines) : lines[i] = line

\* the entries that iteration pushes for the lines oldLine and newLine
DiffEntries(oldLines, newLines, oldLine, newLine, oldIdx, newIdx) ==
    IF oldLine = newLine
    THEN <<[type |-> "unchanged", content |-> OrDefault(oldLine, << >>),
            lineOld |-> oldIdx, lineNew |-> newIdx]>>
    ELSE IF oldLine # Undefined /\ ~arrayIncludes(newLines, oldLine)
    THEN <<[type |-> "removed", content |-> oldLine, lineOld |-> oldIdx]>>
    ELSE IF newLine # Undefined /\ ~arrayIncludes(oldLines, newLine)
    THEN <<[type |-> "added", content |-> newLine, lineNew |-> newIdx]>>
    ELSE (IF oldLine # Undefined
          THEN <<[type |-> "removed", content |-> oldLine, lineOld |-> oldIdx]>>
          ELSE << >>)
         \o (IF newLine # Undefined
             THEN <<[type |-> "added", content |-> newLine, lineNew |-> newIdx]>>
             ELSE << >>)

\* the entries count of which stand for a line of the old text
OldSteps(entries) ==
    Len(SelectSeq(entries, LAMBDA d : d.type \in {"unchanged", "removed"}))
\* the entries count of which stand for a line of the new text
NewSteps(entries) ==
    Len(SelectSeq(entries, LAMBDA d : d.type \in {"unchanged", "added"}))

\* for (let i = 0; i < maxLen; i++) { ... } from iteration i on
RECURSIVE DiffLoop(_, _, _, _, _, _)
DiffLoop(oldLines, newLines, i, maxLen, oldIdx, newIdx) ==
    IF i >= maxLen THEN << >>
    ELSE DiffEntries(oldLines, newLines, LineAt(oldLines, oldIdx),
                     LineAt(newLines, newIdx), oldIdx, newIdx)
         \o DiffLoop(oldLines, newLines, i + 1, maxLen,
                 oldIdx + OldSteps(DiffEntries(oldLines, newLines,
                                       LineAt(oldLines, oldIdx),
                                       LineAt(newLines, newIdx), oldIdx, newIdx)),
                 newIdx + NewSteps(DiffEntries(oldLines, newLines,
                                       LineAt(oldLines, oldIdx),
                                       LineAt(newLines, newIdx), oldIdx, newIdx)))

Max(a, b) == IF a >= b THEN a ELSE b

computeDiff(oldLines, newLines) ==
    DiffLoop(oldLines, newLines, 0, Max(Len(oldLines), Len(newLines)), 1, 1)

DiffInit ==
    /\ oldCode \in Codes
    /\ newCode \in Codes
    /\ diff = << >>
    /\ diffPc = "render"
    /\ NoExtract
    /\ NoDetect
    /\ NoRoutes
    /\ NoCalls
    /\ NoAuth
    /\ NoChat
    /\ NoPage
    /\ NoRun

\* const diff = computeDiff()
RenderDiff ==
    /\ diffPc = "render"
    /\ diff' = computeDiff(split(oldCode), split(newCode))
    /\ diffPc' = "done"
    /\ UNCHANGED <<oldCode, newCode>>
    /\ UNCHANGED otherThanDiff

DiffNext == RenderDiff

DiffSpec == DiffInit /\ [][DiffNext]_vars


----------------------------------------------------------------------------
(* POST /api/run.  The handler makes a temporary directory, writes the     *)
(* source file and starts the child process, all in one turn; the callback *)
(* of exec runs in a later turn, so the requests overlap.  A number of the *)
(* response (exitCode) is written as its decimal string.                   *)

MaxRuns == 2

\* `language` of the request body
RunLanguages == {"python", "javascript", "undefined"}

\* the error that exec hands to its callback: none (exit code 0), a
\* non-zero exit code, the child killed after the timeout (code null),
\* the output over maxBuffer (code the name of the error)
NoError == [isError |-> FALSE, code |-> "null", killed |-> FALSE,
            signal |-> "null"]
ExitError(n) == [isError |-> TRUE, code |-> n, killed |-> FALSE,
                 signal |-> "null"]
TimeoutError == [isError |-> TRUE, code |-> "null", killed |-> TRUE,
                 signal |-> "SIGTERM"]
MaxBufferError == [isError |-> TRUE,
                   code |-> "ERR_CHILD_PROCESS_STDIO_MAXBUFFER",
                   killed |-> TRUE, signal |-> "null"]
ExecErrors == {NoError, ExitError("1"), ExitError("127"), TimeoutError,
               MaxBufferError}

\* error?.code || 0
exitCode(error) ==
    IF ~error.isError THEN "0"
    ELSE IF error.code \in {"null", "0"} THEN "0"
    ELSE error.code

\* res.json({ stdout, stderr, exitCode, language, success: !error })
RunResponse(error, language) ==
    [status |-> 200, exitCode |-> exitCode(error), language |-> language,
     success |-> ~error.isError]

\* how the turn of the handler ends when the code is truthy: mkdtempSync
\* throws, writeFileSync throws, or exec is started
SyncOutcomes == {"mkdtempThrew", "writeThrew", "started"}

RunInit ==
    /\ runs = << >>
    /\ tempDirs = {}
    /\ NoExtract
    /\ NoDetect
    /\ NoRoutes
    /\ NoCalls
    /\ NoAuth
    /\ NoChat
    /\ NoPage
    /\ NoDiff

\* a request without code: 400
RunRejected ==
    /\ Len(runs) < MaxRuns
    /\ \E code \in {"unset", "empty"}, language \in RunLanguages :
           runs' = Append(runs,
               [code |-> code, language |-> language, pc |-> "replied",
                cause |-> "rejected",
                replies |-> <<Reply400("Code is required")>>])
    /\ UNCHANGED tempDirs
    /\ UNCHANGED otherThanRun

\* a request with code: the turn of the handler up to the call of exec
RunStart ==
    /\ Len(runs) < MaxRuns
    /\ \E language \in RunLanguages, outcome \in SyncOutcomes :
           /\ runs' = Append(runs,
                  [code |-> "set", language |-> language,
                   pc |-> IF outcome = "started" THEN "running" ELSE "replied",
                   cause |-> outcome,
                   replies |-> IF outcome = "started" THEN << >>
                               ELSE <<Reply500("Execution failed")>>])
           /\ tempDirs' = IF outcome = "mkdtempThrew" THEN tempDirs
                          ELSE tempDirs \cup {Len(runs) + 1}
    /\ UNCHANGED otherThanRun

\* the callback of exec: rmSync (its failure is swallowed), then res.json
ExecCallback ==
    /\ \E r \in 1..Len(runs) :
           /\ runs[r].pc = "running"
           /\ \E error \in ExecErrors :
                  runs' = [runs EXCEPT
                      ![r].pc = "replied",
                      ![r].cause = IF error = TimeoutError THEN "timeout"
                                   ELSE IF error = MaxBufferError THEN "maxBuffer"
                                   ELSE IF error.isError THEN "exitNonZero"
                                   ELSE "exitZero",
                      ![r].replies = Append(@, RunResponse(error, runs[r].language))]
           /\ \E removed \in BOOLEAN :
                  tempDirs' = IF removed THEN tempDirs \ {r} ELSE tempDirs
    /\ UNCHANGED otherThanRun

RunNext == RunRejected \/ RunStart \/ ExecCallback

RunSpec == RunInit /\ [][RunNext]_vars

----------------------------------------------------------------------------
(* What the claims speak of.                                               *)

Done == pc = "done"

\* the matches whose record was pushed, in the order of the pushes
KeptMatches == SelectSeq(matches, LAMBDA m : m.kept)

PrimaryKept == \E i \in 1..Len(matches) :
                   matches[i].phase = "primary" /\ matches[i].kept
FallbackSeen == \E i \in 1..Len(matches) : matches[i].phase = "fallback"

WellFormedFile(p) ==
    /\ p.kind = "file"
    /\ p.path # << >>
    /\ trim(p.body) # << >>
    /\ p.tag # << >>

\* text between the blocks that holds no marker
Prose(p) == p.kind = "raw" /\ ~includes(p.text, FileMarker)

FileIds == SelectSeq(segs, LAMBDA id : Pieces[id].kind = "file")

\* the record the text of a block asks for
Given(p) == [path |-> p.path, content |-> trim(p.body), language |-> p.tag]

\* the text is well-formed blocks with distinct paths and distinct contents,
\* and prose
C1_Input ==
    /\ \A i \in 1..Len(segs) :
           WellFormedFile(Pieces[segs[i]]) \/ Prose(Pieces[segs[i]])
    /\ \A i \in 1..Len(FileIds), j \in 1..Len(FileIds) :
           i # j => /\ Pieces[FileIds[i]].path # Pieces[FileIds[j]].path
                    /\ Pieces[FileIds[i]].body # Pieces[FileIds[j]].body

\* C1: a text of N well-formed blocks FILE: <path>, fence with a language
\* tag, content, fence, with prose between them, gives exactly N records, in
\* the order of the blocks, each with its block's path, trimmed content and
\* tag.
C1_WellFormedBlocks ==
    (Done /\ C1_Input) =>
        files = [i \in 1..Len(FileIds) |-> Given(Pieces[FileIds[i]])]

\* the same, for blocks whose tag is made of word characters or is absent
\* (the language of a block without a tag is left open)
C1_WordTagBlocks ==
    (/\ Done
     /\ \A i \in 1..Len(segs) :
            LET p == Pieces[segs[i]]
            IN  \/ Prose(p)
                \/ /\ p.kind = "file" /\ p.path # << >> /\ trim(p.body) # << >>
                   /\ \A j \in 1..Len(p.tag) : IsWord(p.tag[j]))
        => /\ Len(files) = Len(FileIds)
           /\ \A i \in 1..Len(files) :
                  LET p == Pieces[FileIds[i]]
                  IN  /\ files[i].path = p.path
                      /\ files[i].content = trim(p.body)
                      /\ p.tag # << >> => files[i].language = p.tag

\* C2: every record of files has a non-empty path and a non-empty content,
\* and a match whose trimmed path or trimmed content is empty pushes no
\* record (the records are exactly those of the other matches).
C2_RecordsNonEmpty ==
    /\ \A i \in 1..Len(files) :
           files[i].path # << >> /\ files[i].content # << >>
    /\ \A i \in 1..Len(matches) :
           (trim(matches[i].g1) = << >> \/ trim(matches[i].g3) = << >>)
               => ~matches[i].kept
    /\ Len(files) = Len(KeptMatches)

\* a returned call in which a block with an empty path and a block with an
\* empty content were matched and dropped, and another block was emitted
C2_Witness ==
    /\ Done
    /\ Len(files) = 1
    /\ \E i \in 1..Len(matches) :
           trim(matches[i].g1) = << >> /\ trim(matches[i].g3) # << >>
    /\ \E i \in 1..Len(matches) :
           trim(matches[i].g1) # << >> /\ trim(matches[i].g3) = << >>

\* C3: the call is always in one of its two loops or has returned (no text
\* leads anywhere else), and every exec() moves the scan forward: a match is
\* non-empty, lies inside the text and starts at or after the end of the
\* match before it, so each loop ends after at most Len(response) matches
\* and the call returns the sequence files.
C3_AlwaysReturns ==
    /\ pc \in {"primary", "fallback", "done"}
    /\ lastIndex \in 1..(Len(response) + 1)
    /\ \A i \in 1..Len(matches) :
           /\ 1 <= matches[i].index
           /\ matches[i].index < matches[i].end
           /\ matches[i].end <= Len(response) + 1
    /\ \A i \in 1..Len(matches), j \in 1..Len(matches) :
           (i < j /\ matches[i].phase = matches[j].phase)
               => matches[i].end <= matches[j].index
    /\ Done => Len(files) <= Len(matches)

\* a returned call on the text FILE:, line break, fence: a marker and a fence
\* that is never closed; both loops ran and ended with no record
C3_Witness ==
    /\ Done
    /\ response = FileMarker \o <<NL>> \o Fence
    /\ files = << >>
    /\ matches = << >>

\* C4: the alternative pattern is tried exactly when the primary loop ends
\* with no record pushed, so files never holds a record of each pattern.
C4_FallbackOnlyWhenEmpty ==
    /\ [](~(PrimaryKept /\ FallbackSeen))
    /\ [][(pc = "primary" /\ pc' # "primary")
              => (pc' = "fallback" <=> files = << >>)]_vars

\* a returned call in which the primary pattern matched a block that was
\* dropped, and the alternative pattern then produced a record
C4_Witness ==
    /\ Done
    /\ \E i \in 1..Len(matches) : matches[i].phase = "primary"
    /\ \E i \in 1..Len(matches) : matches[i].phase = "fallback" /\ matches[i].kept
    /\ Len(files) >= 1

\* the position in the text of the first character of piece i
RECURSIVE Offset(_, _)
Offset(ids, i) ==
    IF i <= 1 THEN 1 ELSE Offset(ids, i - 1) + Len(Render(Pieces[ids[i - 1]]))

\* the record the primary pattern returns for FILE: <path> and the fenced
\* block of piece p
AsFileBlock(p) == filePattern(FileBlock(p.path, p.tag, p.body), 1)

HasDot(path) == \E j \in 1..Len(path) : path[j] = "."

PrimarySeen == \E i \in 1..Len(matches) : matches[i].phase = "primary"

\* the heading block that piece i of the text is gave the record the primary
\* pattern gives for the same block under FILE:
HeadingExtracted(i) ==
    LET p == Pieces[segs[i]]
        m == AsFileBlock(p)
    IN  m.found =>
            \E k \in 1..Len(KeptMatches) :
                /\ KeptMatches[k].phase = "fallback"
                /\ KeptMatches[k].index = Offset(segs, i)
                /\ files[k] = FileRecord(m)

\* piece i of the text begins a line
StartsLine(i) == Offset(segs, i) = 1 \/ response[Offset(segs, i) - 1] = NL

\* C5: when the primary pattern matches nothing, every heading block (a line
\* of two or three "#" and a path token with a ".", then a fenced block)
\* gives the record the primary pattern gives for FILE: <path> and the same
\* fenced block.
C5_FallbackEquivalent ==
    (Done /\ ~PrimarySeen) =>
        \A i \in 1..Len(segs) :
            (/\ Pieces[segs[i]].kind = "heading"
             /\ HasDot(Pieces[segs[i]].path)
             /\ StartsLine(i))
                => HeadingExtracted(i)

\* the same, for the texts in which no heading block follows a line that
\* holds only "#" characters
C5_ApartFromHashLines ==
    (\A i \in 1..Len(segs) :
         Pieces[segs[i]].kind = "raw" => Pieces[segs[i]].text # <<"#","#">>)
        => C5_FallbackEquivalent

\* a returned call in which two heading blocks were extracted
C5_Witness ==
    /\ Done
    /\ ~PrimarySeen
    /\ Len(files) = 2
    /\ \A i \in 1..Len(segs) : Pieces[segs[i]].kind = "heading"
    /\ files[1].path = <<"a",".","t","s">>
    /\ files[2].path = <<"c",".","r","s">>

\* C6: every record the alternative pattern produces has a path that holds a
\* "."; a heading block whose path token holds none is matched and dropped.
C6_FallbackPathHasDot ==
    /\ FallbackSeen =>
           \A i \in 1..Len(files) : \E j \in 1..Len(files[i].path) :
               files[i].path[j] = "."
    /\ \A i \in 1..Len(matches) :
           (matches[i].phase = "fallback" /\ matches[i].kept)
               => \E j \in 1..Len(matches[i].g1) : matches[i].g1[j] = "."

\* a returned call in which the alternative pattern matched a heading block
\* with a non-empty path without "." and a non-empty content, and dropped it
C6_Witness ==
    /\ Done
    /\ \E i \in 1..Len(matches) :
           /\ matches[i].phase = "fallback"
           /\ ~matches[i].kept
           /\ trim(matches[i].g1) = <<"O","v">>
           /\ trim(matches[i].g3) # << >>

\* the extension of a path as the claim reads it: the path ends with the
\* key (a "." and letters), letters compared without case, and the "." is
\* not the first character of the last component
EndsWithKey(p, key) ==
    /\ Len(p) > Len(key)
    /\ p[Len(p) - Len(key)] # "/"
    /\ \A j \in 1..Len(key) : LowerChar(p[Len(p) - Len(key) + j]) = key[j]

TableLanguage(p) ==
    IF \E kv \in langMap : EndsWithKey(p, kv[1])
    THEN (CHOOSE kv \in langMap : EndsWithKey(p, kv[1]))[2]
    ELSE L_plaintext

\* C7: a record whose fence carries no tag has the language of the table
\* entry of its path's extension, compared without case, and plaintext when
\* the path has no extension or the table has no entry for it.
C7_LanguageFromExtension ==
    /\ Len(files) = Len(KeptMatches)
    /\ \A i \in 1..Len(files) :
           KeptMatches[i].g2 = << >>
               => files[i].language = TableLanguage(files[i].path)

\* a returned call with two records without a tag: one with an upper-case
\* extension of the table, one with no extension
C7_Witness ==
    /\ Done
    /\ Len(files) = 2
    /\ KeptMatches[1].g2 = << >> /\ KeptMatches[2].g2 = << >>
    /\ files[1].path = <<"B",".","P","Y">> /\ files[1].language = L_python
    /\ files[2].path = <<"e">> /\ files[2].language = L_plaintext

\* C8: a record whose fence carries a tag has that tag as its language,
\* whatever the extension of its path.
C8_ExplicitTagVerbatim ==
    /\ Len(files) = Len(KeptMatches)
    /\ \A i \in 1..Len(files) :
           KeptMatches[i].g2 # << >> => files[i].language = KeptMatches[i].g2

\* a returned call with a record whose tag differs from the language the
\* table gives for its extension
C8_Witness ==
    /\ Done
    /\ \E i \in 1..Len(files) :
           /\ files[i].path = <<"a",".","t","s">>
           /\ files[i].language = <<"t","s">>
           /\ TableLanguage(files[i].path) = L_typescript

\* C9: the records are in the order of their blocks in the text, one record
\* per emitted block: blocks with the same path each give a record.
C9_OrderOfAppearance ==
    /\ Len(files) = Len(KeptMatches)
    /\ \A i \in 1..Len(files) :
           /\ files[i].path = trim(KeptMatches[i].g1)
           /\ files[i].content = trim(KeptMatches[i].g3)
    /\ \A i \in 1..Len(KeptMatches), j \in 1..Len(KeptMatches) :
           i < j => KeptMatches[i].end <= KeptMatches[j].index

\* a returned call with two records of the same path, then a third
C9_Witness ==
    /\ Done
    /\ Len(files) = 3
    /\ files[1].path = files[2].path
    /\ files[3].path # files[1].path

NoFence == ~includes(response, Fence)
NoMarker == ~includes(response, FileMarker) /\ ~includes(response, <<"#","#">>)

\* C10: a text with no fence, or with neither a FILE: marker nor a heading
\* marker, gives no record.
C10_ProseGivesNothing == (Done /\ (NoFence \/ NoMarker)) => files = << >>

\* a returned call on a text that holds a marker and a line of prose after
\* it, and no fence
C10_Witness ==
    /\ Done
    /\ NoFence
    /\ includes(response, FileMarker \o <<"o","k",NL>>)
    /\ files = << >>

\* the path p without the "/" characters it begins with
RECURSIVE WithoutLeadingSlashes(_)
WithoutLeadingSlashes(p) ==
    IF p # << >> /\ Head(p) = "/" THEN WithoutLeadingSlashes(Tail(p)) ELSE p

\* the answer is the archive made of the files of an answered build
Packaged ==
    /\ request.route = R_download
    /\ reply.status = 200

\* the entries of the archive that bear the name
EntriesNamed(name) ==
    {i \in 1..Len(reply.archive) : reply.archive[i].entryName = name}

\* the archive has an entry under the name of the record, and what is read
\* back under that name is the content of the record
ReadsBack(rec) ==
    /\ EntriesNamed(WithoutLeadingSlashes(rec.path)) # {}
    /\ \A i \in EntriesNamed(WithoutLeadingSlashes(rec.path)) :
           /\ reply.archive[i].data = BufferFrom(rec.content)
           /\ toString(reply.archive[i].data) = rec.content

\* C12: for every record extracted from a completion and posted to
\* /api/download-project, the archive has an entry named by the path of the
\* record without its leading "/" characters, and the entry read back under
\* that name holds the trimmed content of the record.
C12_RoundTrip ==
    Packaged => \A k \in 1..Len(request.files) : ReadsBack(request.files[k])

\* no other record of the request has the same path once the leading "/"
\* characters are removed
OnlyOfItsName(k) ==
    \A j \in 1..Len(request.files) :
        j # k => WithoutLeadingSlashes(request.files[j].path)
                     # WithoutLeadingSlashes(request.files[k].path)

\* C12, amended: the same for every record whose path without leading "/"
\* is that of no other record of the request, and the archive then has one
\* entry of that name; records that share such a path are each added under
\* the one name, so the archive cannot give back the content of them all.
C12_RoundTripDistinctNames ==
    Packaged =>
        \A k \in 1..Len(request.files) :
            OnlyOfItsName(k) =>
                /\ ReadsBack(request.files[k])
                /\ Cardinality(EntriesNamed(
                       WithoutLeadingSlashes(request.files[k].path))) = 1

\* an archive of two records: one whose path begins with one "/" and whose
\* content holds a character of two bytes, one whose path begins with "//"
C12_Witness ==
    /\ Packaged
    /\ Len(request.files) = 2
    /\ request.files[1].path = <<"/","a",".","t","s">>
    /\ request.files[1].content = <<EAcute, " ", "y">>
    /\ request.files[2].path = <<"/","/","s","/","B",".","P","Y">>
    /\ \E i \in 1..Len(reply.archive) :
           /\ reply.archive[i].entryName = <<"s","/","B",".","P","Y">>
           /\ reply.archive[i].data = <<"z">>
    /\ \E i \in 1..Len(reply.archive) :
           /\ reply.archive[i].entryName = <<"a",".","t","s">>
           /\ reply.archive[i].data = <<"C3", "A9", " ", "y">>

\* the table of the claim
C13_Table ==
    { << <<".","t","s">>,          L_typescript >>,
      << <<".","t","s","x">>,      L_tsx >>,
      << <<".","j","s">>,          L_javascript >>,
      << <<".","j","s","x">>,      L_jsx >>,
      << <<".","p","y">>,          L_python >>,
      << <<".","j","s","o","n">>,  L_json >>,
      << <<".","h","t","m","l">>,  L_html >>,
      << <<".","c","s","s">>,      L_css >>,
      << <<".","m","d">>,          L_markdown >>,
      << <<".","y","m","l">>,      L_yaml >>,
      << <<".","y","a","m","l">>,  L_yaml >>,
      << <<".","s","q","l">>,      L_sql >>,
      << <<".","e","n","v">>,      L_plaintext >>,
      << <<".","g","i","t","i","g","n","o","r","e">>, L_plaintext >> }

C13_Expected(p) ==
    IF \E kv \in C13_Table : EndsWithKey(p, kv[1])
    THEN (CHOOSE kv \in C13_Table : EndsWithKey(p, kv[1]))[2]
    ELSE L_plaintext

\* C13: detectLanguage returns, for a path whose extension is a key of the
\* fixed table (.ts typescript, .tsx tsx, .js javascript, .jsx jsx, .py
\* python, .json json, .html html, .css css, .md markdown, .yml and .yaml
\* yaml, .sql sql, .env and .gitignore plaintext), the value of that key, and
\* plaintext for every other path, a path with no extension included.
C13_ExactTable == detected # Pending => detected = C13_Expected(argPath)

\* a returned call on a path in a directory whose extension is a key of the
\* table written in another case
C13_Witness ==
    /\ argPath = <<"s","r","c","/","a",".","Y","m","l">>
    /\ detected = L_yaml

\* position i of the text begins a line
LineStart(i) == i = 1 \/ response[i - 1] = NL

\* C16: the primary pattern takes FILE: only at the start of a line: every
\* record of the primary loop comes from a marker that begins the text or
\* follows a line break, so a marker with other characters before it on its
\* line (see FILE: x.ts) gives no record.
C16_MarkerStartsLine ==
    \A i \in 1..Len(matches) :
        (matches[i].phase = "primary" /\ matches[i].kept)
            => LineStart(matches[i].index)

\* the rest of the line on which the marker of match m stands, trimmed
RestOfMarkerLine(m) ==
    trim(Slice(response, m.index + Len(FileMarker),
               FirstIn(response, m.index + Len(FileMarker), {NL})))

\* C17: the path of every record of the primary loop is the trimmed rest of
\* the line that holds its FILE: marker; text of a later line is never the
\* path.
C17_PathOnMarkerLine ==
    \A k \in 1..Len(KeptMatches) :
        (KeptMatches[k].phase = "primary" /\ k <= Len(files))
            => files[k].path = RestOfMarkerLine(KeptMatches[k])

\* C18: within a scan the matches are disjoint and in the order of the text,
\* every match ends with the closing fence of its block and the scan resumes
\* at the character after it; the spans of any two emitted records are
\* disjoint, whatever fences and markers the consumed text holds.
C18_NonOverlapping ==
    /\ \A i \in 1..Len(matches), j \in 1..Len(matches) :
           (i < j /\ matches[i].phase = matches[j].phase)
               => matches[i].end <= matches[j].index
    /\ \A i \in 1..Len(KeptMatches), j \in 1..Len(KeptMatches) :
           i # j => \/ KeptMatches[i].end <= KeptMatches[j].index
                    \/ KeptMatches[j].end <= KeptMatches[i].index
    /\ \A i \in 1..Len(matches) :
           LitAt(response, matches[i].end - Len(Fence), Fence)
    /\ (matches # << >> /\ matches[Len(matches)].phase = pc)
           => lastIndex = matches[Len(matches)].end

\* a returned call on a text in which the span of the first match holds a
\* second marker: the span was not matched again, and the next match is the
\* block right after the closing fence
C18_Witness ==
    /\ Done
    /\ Len(matches) = 2
    /\ Len(files) = 2
    /\ matches[1].index = 1
    /\ includes(matches[1].g1, FileMarker)
    /\ matches[2].index = matches[1].end + 1

\* the text between the opening fence line and the closing fence of match m:
\* the fence that ends the match, and the line break, fence, tag of word
\* characters and line break before a text that holds no fence
BlockBodies(m) ==
    {Slice(response, b, m.end - Len(Fence)) :
        b \in {b \in (m.index + 1)..(m.end - Len(Fence)) :
                 /\ response[b - 1] = NL
                 /\ ~includes(Slice(response, b, m.end - Len(Fence)), Fence)
                 /\ \E o \in (m.index + 1)..(b - 1 - Len(Fence)) :
                        /\ response[o - 1] = NL
                        /\ LitAt(response, o, Fence)
                        /\ \A j \in (o + Len(Fence))..(b - 2) :
                               IsWord(response[j])}}

\* c is the text body without the whitespace around it
Trimmed(body, c) ==
    /\ c # << >> => ~IsSpace(c[1]) /\ ~IsSpace(c[Len(c)])
    /\ \E lo \in 1..(Len(body) + 1) :
           /\ lo + Len(c) - 1 <= Len(body)
           /\ \A j \in 1..Len(body) :
                  IF j >= lo /\ j < lo + Len(c)
                  THEN body[j] = c[j - lo + 1]
                  ELSE IsSpace(body[j])

\* C19: the content of every record is the text between the opening fence
\* line and the closing fence of its block without the whitespace around it:
\* it neither begins nor ends with whitespace, and what the block holds
\* besides it is whitespace only.
C19_ContentTrimmedBody ==
    /\ Len(files) = Len(KeptMatches)
    /\ \A k \in 1..Len(files) :
           /\ BlockBodies(KeptMatches[k]) # {}
           /\ \A body \in BlockBodies(KeptMatches[k]) :
                  Trimmed(body, files[k].content)

\* a returned call with a record whose block holds whitespace before and
\* after its content
C19_Witness ==
    /\ Done
    /\ \E k \in 1..Len(files) :
           /\ KeptMatches[k].g3 = <<" ", "y", NL>>
           /\ files[k].content = <<"y">>

\* the "#" characters that stand at position i and after it
RECURSIVE HashRun(_, _)
HashRun(t, i) == IF i <= Len(t) /\ t[i] = "#" THEN 1 + HashRun(t, i + 1) ELSE 0

\* C20: every record of the alternative pattern comes from a line that begins
\* with exactly two or three "#": its match starts a line, the "#" there are
\* two or three, and the path of the record does not begin with "#".
C20_HeadingTwoOrThree ==
    \A k \in 1..Len(KeptMatches) :
        (KeptMatches[k].phase = "fallback" /\ k <= Len(files))
            => /\ LineStart(KeptMatches[k].index)
               /\ HashRun(response, KeptMatches[k].index) \in {2, 3}
               /\ files[k].path[1] # "#"

\* C11: a request to /api/build whose prompt is present, for which a client
\* is available and whose completion call has returned is answered with
\* status 200 whatever the extractor found; fileCount is the number of
\* entries of files, and both are empty and 0 when the extractor finds no
\* record in the completion.
C11_BuildAnswers200 ==
    (/\ request.route = R_build
     /\ request.input # "missing"
     /\ openai # NoClient
     /\ modelCall = "returned")
        => /\ handler = "replied"
           /\ reply.status = 200
           /\ reply.fileCount = Len(reply.files)
           /\ parseFilesFromResponse(reply.rawResponse) = << >>
                  => (reply.files = << >> /\ reply.fileCount = 0)

\* an answered build whose completion holds a FILE: marker and a fence, and
\* in which the extractor found no record
C11_Witness ==
    /\ request.route = R_build
    /\ modelCall = "returned"
    /\ reply.status = 200
    /\ includes(reply.rawResponse, FileMarker)
    /\ includes(reply.rawResponse, Fence)
    /\ reply.files = << >>
    /\ reply.fileCount = 0

\* C14: the calls of parseFilesFromResponse share nothing: whatever the
\* order in which the steps of concurrent requests to /api/build are taken,
\* and whatever calls were made before, a call that has returned holds in
\* its array exactly what a call on the same text made alone returns.
C14_CallsIndependent ==
    \A c \in DOMAIN calls :
        calls[c].pc = "done"
            => arrays[FilesArray(c)] = parseFilesFromResponse(calls[c].response)

\* two calls on different texts, both in their loops, the first having pushed
\* a record and moved its scan position: the second has pushed two
C14_Witness ==
    /\ calls # << >>
    /\ calls[1].pc = "primary" /\ calls[2].pc = "fallback"
    /\ calls[1].response # calls[2].response
    /\ Len(arrays[FilesArray(1)]) = 1
    /\ Len(arrays[FilesArray(2)]) = 2
    /\ patterns[PatternObject(1)] > 1
    /\ patterns[PatternObject(2)] > patterns[PatternObject(1)]

\* none of the three sources of a key is available to the request
NoKeyAvailable ==
    /\ ~Truthy(request.apiKey)
    /\ ~Truthy(env.AI_INTEGRATIONS_OPENAI_BASE_URL)
    /\ ~Truthy(env.OPENAI_API_KEY)

\* C15: the client of a request is chosen by priority: the key of the caller
\* when it is given, else the Replit AI integration when
\* AI_INTEGRATIONS_OPENAI_BASE_URL is set, else OPENAI_API_KEY when it is
\* set; getOpenAI returns null exactly when none of the three is available,
\* and then each of the five routes answers 400 and the model is not called.
C15_ClientPriority ==
    request.route \in ModelRoutes =>
        /\ ~InputRejected(request.route, request.input) =>
               /\ Truthy(request.apiKey) => openai = CustomClient
               /\ (/\ ~Truthy(request.apiKey)
                   /\ Truthy(env.AI_INTEGRATIONS_OPENAI_BASE_URL))
                      => openai = IntegrationClient
               /\ (/\ ~Truthy(request.apiKey)
                   /\ ~Truthy(env.AI_INTEGRATIONS_OPENAI_BASE_URL)
                   /\ Truthy(env.OPENAI_API_KEY))
                      => openai = EnvKeyClient
               /\ openai = NoClient <=> NoKeyAvailable
        /\ NoKeyAvailable =>
               /\ handler = "replied"
               /\ reply.status = 400
               /\ modelCall = "none"

\* a request to /api/build with a prompt, an empty key, and an environment
\* with neither variable set to a value: answered 400, the model not called
C15_Witness ==
    /\ request.route = R_build
    /\ request.input = "ok"
    /\ request.apiKey = "empty"
    /\ env.AI_INTEGRATIONS_OPENAI_BASE_URL = "empty"
    /\ env.OPENAI_API_KEY = "unset"
    /\ openai = NoClient
    /\ reply.status = 400
    /\ modelCall = "none"

\* position b of the text t follows an opening fence line: a line break, a
\* fence, a tag of word characters and a line break
OpensBody(t, b) ==
    /\ b >= 2
    /\ t[b - 1] = NL
    /\ \E o \in 2..(b - 1 - Len(Fence)) :
           /\ t[o - 1] = NL
           /\ LitAt(t, o, Fence)
           /\ \A j \in (o + Len(Fence))..(b - 2) : IsWord(t[j])

\* f is the first place at or after b where a fence stands in t
FirstFenceAfter(t, b, f) ==
    /\ f >= b
    /\ LitAt(t, f, Fence)
    /\ ~includes(Slice(t, b, f + Len(Fence) - 1), Fence)

\* C21: no record of an answered build has a content that holds three
\* backticks in a row: the content of every record is the text from the end
\* of an opening fence line to the first fence after it, wherever on its line
\* that fence stands, without the whitespace around it.
C21_NoFenceInContent ==
    (request.route = R_build /\ reply.status = 200) =>
        \A k \in 1..Len(reply.files) :
            /\ ~includes(reply.files[k].content, Fence)
            /\ \E b \in 2..Len(reply.rawResponse) :
                   /\ OpensBody(reply.rawResponse, b)
                   /\ \E f \in b..Len(reply.rawResponse) :
                          /\ FirstFenceAfter(reply.rawResponse, b, f)
                          /\ Trimmed(Slice(reply.rawResponse, b, f),
                                     reply.files[k].content)

\* an answered build whose completion holds a block with a fence in the
\* middle of a line of its body: the record ends before that fence
C21_Witness ==
    /\ request.route = R_build
    /\ reply.status = 200
    /\ includes(reply.rawResponse, <<"x", BT, BT, BT, "y", NL>> \o Fence)
    /\ \E k \in 1..Len(reply.files) :
           /\ reply.files[k].path = <<"q",".","m","d">>
           /\ reply.files[k].content = <<"x">>


\* the credentials of a login request are the configured ones
RightCredentials(r) ==
    r.username = admin.username /\ r.password = admin.password

\* a token returned by an earlier successful login and shown to no logout
\* since
IssuedAndNotLoggedOut(t) == issuedAt[t] > loggedOutAt[t]

\* the answer of verify to a bearer token
C22_VerifyAnswer ==
    authReply.status # 0 /\ authReply.route = "verify" =>
        \A t \in TokenPool :
            authReply.header = BearerScheme \o t =>
                /\ authReply.status = 200 <=> IssuedAndNotLoggedOut(t)
                /\ authReply.status = 200 <=> authReply.valid
                /\ authReply.status \in {200, 401}

\* what a login and a logout do to the tokens
C22_Step ==
    authCount' = authCount + 1 =>
        /\ authReply'.route = "login" =>
               IF RightCredentials(authReply')
               THEN /\ authReply'.status = 200
                    /\ authReply'.token \in tokens'
                    /\ \A u \in tokens : u \in tokens'
               ELSE /\ authReply'.status = 401
                    /\ tokens' = tokens
        /\ authReply'.route = "logout" =>
               \A u \in TokenPool :
                   ~Presents(authReply'.header, u) =>
                       (u \in tokens' <=> u \in tokens)
        /\ authReply'.route = "verify" => tokens' = tokens

\* C22: verify answers valid for a bearer token exactly when an earlier
\* successful login (username and password both the configured ones)
\* returned the token and no logout was shown it since; a failed login
\* answers 401 and leaves the tokens as they were; a logout leaves every
\* token it was not shown as it was.
C22_TokenLifecycle == []C22_VerifyAnswer /\ [][C22_Step]_vars

\* verify answers valid for one token after another token was issued and
\* logged out
C22_Witness ==
    /\ authReply.status = 200
    /\ authReply.route = "verify"
    /\ \E t \in TokenPool : \E u \in TokenPool \ {t} :
           /\ authReply.header = BearerScheme \o t
           /\ issuedAt[u] > 0
           /\ loggedOutAt[u] > issuedAt[u]


\* the handler of /api/assistant/chat has answered
ChatReplied == chatPc = "replied"

QuestionStarts == {<<"w","h","a","t">>, <<"h","o","w">>, <<"w","h","y">>,
                   <<"w","h","e","n">>, <<"w","h","o">>}
QuestionWords == {<<"l","a","t","e","s","t">>, <<"c","u","r","r","e","n","t">>,
                  <<"2","0","2","4">>, <<"2","0","2","5">>}

\* the text holds a question mark, starts with an interrogative or holds one
\* of the words that ask for recent facts, whatever the case of its letters
LooksLikeQuestion(text) ==
    \/ \E i \in 1..Len(text) : text[i] = "?"
    \/ \E w \in QuestionStarts :
           /\ Len(text) >= Len(w)
           /\ toLowerCase(SubSeq(text, 1, Len(w))) = w
    \/ \E w \in QuestionWords : \E i \in 1..Len(text) :
           /\ i + Len(w) - 1 <= Len(text)
           /\ toLowerCase(SubSeq(text, i, i + Len(w) - 1)) = w

\* searchEnabled is truthy, there are messages, and the last one looks like
\* a question
SearchCalledFor ==
    /\ chatRequest.searchEnabled = "true"
    /\ chatRequest.messages # UndefinedList
    /\ chatRequest.messages # << >>
    /\ LET last == chatRequest.messages[Len(chatRequest.messages)].content
       IN  last # Undefined /\ LooksLikeQuestion(last)

\* the conversation sent to the model holds the search results
ResultsInConversation ==
    \E i \in 1..Len(conversation) :
        /\ conversation[i].role = "system"
        /\ conversation[i].content[1] = "REAL-TIME WEB SEARCH RESULTS:"

\* searchUsed of the response is true exactly when the search results were
\* put into the conversation
SearchUsedExact ==
    ChatReplied /\ chatReply.status = 200 =>
        (chatReply.searchUsed <=> ResultsInConversation)

\* C23 as stated: a search is made exactly when searchEnabled is truthy, the
\* messages are not empty and the last one looks like a question, and
\* searchUsed is true exactly when the results went into the conversation.
C23_SearchExactlyWhenAsked ==
    /\ ChatReplied => (chatTrace.searches = 1 <=> SearchCalledFor)
    /\ chatTrace.searches \in {0, 1}
    /\ SearchUsedExact

\* C23, amended: the same for a request that has a client; a request without
\* one is answered 400 and no search is made.
C23_SearchWhenAskedWithClient ==
    /\ ChatReplied /\ chatClient # NoClient =>
           (chatTrace.searches = 1 <=> SearchCalledFor)
    /\ ChatReplied /\ chatClient = NoClient =>
           chatReply.status = 400 /\ chatTrace.searches = 0
    /\ chatTrace.searches > 0 => SearchCalledFor
    /\ chatTrace.searches \in {0, 1}
    /\ SearchUsedExact

\* a request whose last message starts with an interrogative in capitals is
\* answered after a search that failed, with searchUsed true
C23_Witness ==
    /\ ChatReplied
    /\ chatReply.status = 200
    /\ chatReply.searchUsed
    /\ chatTrace.searches = 1
    /\ searchResults = searchWeb("failed")
    /\ chatRequest.messages[Len(chatRequest.messages)].content = <<"W","H","Y">>

\* the two rows the handler writes, the message of the user first
RowsToStore ==
    <<[role |-> "user",
       content |-> chatRequest.messages[Len(chatRequest.messages)].content],
      [role |-> "assistant", content |-> chatText]>>

\* C24: rows are written only after the model call has returned, the last
\* message of the user before the reply of the assistant; a failure of the
\* memory fetch or of a write leaves the response as it is, the reply with
\* status 200; when the model call throws nothing is written and the
\* response is 500.
C24_PersistAfterModel ==
    /\ stored # << >> =>
           /\ chatTrace.model = "returned"
           /\ Len(stored) <= 2
           /\ stored = SubSeq(RowsToStore, 1, Len(stored))
    /\ ChatReplied /\ chatTrace.model = "returned" =>
           /\ chatReply.status = 200
           /\ chatReply.reply = chatText
    /\ ChatReplied /\ chatTrace.model = "threw" =>
           /\ chatReply.status = 500
           /\ stored = << >>
    /\ ChatReplied /\ chatTrace.model = "none" => stored = << >>

\* the memory fetch failed, the first write succeeded and the second
\* failed: the reply is returned with status 200
C24_Witness ==
    /\ ChatReplied
    /\ chatTrace.memory = "failed"
    /\ chatTrace.saves = <<"ok", "failed">>
    /\ Len(stored) = 1
    /\ chatReply.status = 200


\* C25: when a send fails, what its onError removes from the displayed list
\* is the user message of that send and no other entry, whatever sends,
\* search sends, reloads of the history and clears came in between.
C25_RollbackRemovesOwnMessage ==
    rollback.send # 0 =>
        \A i \in 1..Len(rollback.removed) :
            rollback.removed[i] = UserEntry(rollback.send, "chat")


\* the contents of the entries of the diff whose type is in types, in order
ContentsOfTypes(types) ==
    LET kept == SelectSeq(diff, LAMBDA d : d.type \in types)
    IN  [i \in 1..Len(kept) |-> kept[i].content]

\* C26: the entries of type unchanged or removed are, in order, the lines of
\* oldCode, and the entries of type unchanged or added are, in order, the
\* lines of newCode.
C26_CompleteDiff ==
    diffPc = "done" =>
        /\ ContentsOfTypes({"unchanged", "removed"}) = split(oldCode)
        /\ ContentsOfTypes({"unchanged", "added"}) = split(newCode)


\* C27: every response of /api/run that reports a result has success true
\* exactly when exitCode is 0: a run that failed, one killed after the
\* timeout or for its output included, has success false and an exitCode
\* other than 0.
C27_SuccessIffExitZero ==
    \A r \in 1..Len(runs) : \A i \in 1..Len(runs[r].replies) :
        runs[r].replies[i].status = 200 =>
            (runs[r].replies[i].success <=> runs[r].replies[i].exitCode = "0")

\* C28: a request to /api/run is answered once, and the temporary directory
\* made for it is gone when the response is sent, however the run ended.
C28_OneResponseAfterCleanup ==
    \A r \in 1..Len(runs) :
        /\ Len(runs[r].replies) <= 1
        /\ runs[r].pc = "replied" =>
               Len(runs[r].replies) = 1 /\ r \notin tempDirs

====
